---- MODULE Spec2Model ----
(***************************************************************************)
(* Tidal-DL: the authentication session state machine (v2/login.mjs), the  *)
(* retrying HTTP client it uses, and the segmented-download jobs           *)
(* (v2/music.mjs, v2/video.mjs).                                           *)
(*                                                                         *)
(* Nullable string fields hold Null; nullable numeric fields hold the      *)
(* empty sequence NullNum, a number n is held as <<n>>.  Times are         *)
(* milliseconds, as returned by Date.now().                                *)
(***************************************************************************)
EXTENDS Integers, Sequences, FiniteSets, TLC

VARIABLES
    now,        \* Date.now()
    file,       \* tidal_session.json
    session,    \* the TidalAuthSession instance of the running operation
    op,         \* exported operation invoked: "authenticate" or "refresh"
    pc,         \* position inside the invoked operation
    result,     \* what the invoked operation returned ("none" while running)
    fpc,        \* position inside fetchWithRetries
    attempt,    \* fetchWithRetries' loop variable
    endpoint,   \* the request fetchWithRetries is issuing
    response,   \* the response fetchWithRetries returned
    stats,      \* history of the current fetchWithRetries call
    hist,       \* history of the invoked operation
    job,        \* one download job (downloadMusicTrack / downloadVideo)
    eval        \* one application of a parser or session function to an input

vars == <<now, file, session, op, pc, result, fpc, attempt, endpoint,
          response, stats, hist, job, eval>>

authVars == <<now, file, session, op, pc, result, fpc, attempt, endpoint,
              response, stats, hist>>

(***************************************************************************)
(* Program constants.                                                      *)
(***************************************************************************)
DEFAULT_HTTP_RETRY_DELAY_SECONDS == 20
DEFAULT_FETCH_MAX_RETRIES == 3
GENERIC_RETRY_BASE_MILLISECONDS == 2000

(***************************************************************************)
(* Bounds of the model.                                                    *)
(***************************************************************************)
StartTime == 100000     \* Date.now() when the operation is invoked
MaxSegments == 3        \* longest media playlist of a video job

Null == "null"
NullNum == <<>>
Num(n) == <<n>>

(***************************************************************************)
(* TidalAuthSession                                                        *)
(***************************************************************************)
SessionDefaults ==
    [deviceCode |-> Null, userCode |-> Null, verificationUrl |-> Null,
     authCheckTimeoutTimestamp |-> NullNum, authCheckIntervalMs |-> NullNum,
     userId |-> Null, countryCode |-> Null, accessToken |-> Null,
     refreshToken |-> Null, tokenExpiresAtTimestamp |-> NullNum]

NoTokenData ==
    [userId |-> Null, countryCode |-> Null, accessToken |-> Null,
     refreshToken |-> Null, tokenExpiresAtTimestamp |-> NullNum]

\* Object.assign with the defaults as the last source
TidalAuthSessionDefaultsLast(initialSessionData) == SessionDefaults

\* Object.assign(this, defaults, initialSessionData)
TidalAuthSession(initialSessionData) ==
    [f \in DOMAIN SessionDefaults |->
        IF f \in DOMAIN initialSessionData THEN initialSessionData[f]
        ELSE SessionDefaults[f]]

\* a timestamp is truthy when it is a number other than 0
Truthy(num) == num # NullNum /\ num[1] # 0

\* the comparison of line 753 written the wrong way round
isAccessTokenCurrentlyValidInverted(s, t) ==
    /\ s.accessToken # Null
    /\ Truthy(s.tokenExpiresAtTimestamp)
    /\ t > s.tokenExpiresAtTimestamp[1]

\* the comparison of line 753 admitting the instant of expiry
isAccessTokenCurrentlyValidInclusive(s, t) ==
    /\ s.accessToken # Null
    /\ Truthy(s.tokenExpiresAtTimestamp)
    /\ t <= s.tokenExpiresAtTimestamp[1]

isAccessTokenCurrentlyValid(s, t) ==
    /\ s.accessToken # Null
    /\ Truthy(s.tokenExpiresAtTimestamp)
    /\ t < s.tokenExpiresAtTimestamp[1]

hasValidRefreshToken(s) == s.refreshToken # Null

\* line 765 without the conversion of expires_in to milliseconds
updateAccessTokensSeconds(s, tokenApiResponse, t) ==
    [s EXCEPT
        !.accessToken = tokenApiResponse.access_token,
        !.refreshToken = IF tokenApiResponse.refresh_token # Null
                         THEN tokenApiResponse.refresh_token ELSE @,
        !.tokenExpiresAtTimestamp = Num(t + tokenApiResponse.expires_in),
        !.userId = IF tokenApiResponse.user.present
                   THEN tokenApiResponse.user.userId ELSE @,
        !.countryCode = IF tokenApiResponse.user.present
                        THEN tokenApiResponse.user.countryCode ELSE @]

updateAccessTokens(s, tokenApiResponse, t) ==
    [s EXCEPT
        !.accessToken = tokenApiResponse.access_token,
        !.refreshToken = IF tokenApiResponse.refresh_token # Null
                         THEN tokenApiResponse.refresh_token ELSE @,
        !.tokenExpiresAtTimestamp = Num(t + tokenApiResponse.expires_in * 1000),
        !.userId = IF tokenApiResponse.user.present
                   THEN tokenApiResponse.user.userId ELSE @,
        !.countryCode = IF tokenApiResponse.user.present
                        THEN tokenApiResponse.user.countryCode ELSE @]

\* lines 772-778 without line 774
invalidateCurrentTokensKeepingRefresh(s) ==
    [s EXCEPT !.accessToken = Null,
              !.tokenExpiresAtTimestamp = NullNum,
              !.userId = Null, !.countryCode = Null]

invalidateCurrentTokens(s) ==
    [s EXCEPT !.accessToken = Null, !.refreshToken = Null,
              !.tokenExpiresAtTimestamp = NullNum,
              !.userId = Null, !.countryCode = Null]

\* lines 780-786 without line 781
clearActiveDeviceAuthParametersKeepingCode(s) ==
    [s EXCEPT !.userCode = Null,
              !.verificationUrl = Null,
              !.authCheckTimeoutTimestamp = NullNum,
              !.authCheckIntervalMs = NullNum]

clearActiveDeviceAuthParameters(s) ==
    [s EXCEPT !.deviceCode = Null, !.userCode = Null,
              !.verificationUrl = Null,
              !.authCheckTimeoutTimestamp = NullNum,
              !.authCheckIntervalMs = NullNum]

(***************************************************************************)
(* The session file.  kind is "absent" (no file), "corrupt" (content that  *)
(* JSON.parse rejects) or "json" (data is the stored object).              *)
(***************************************************************************)
AbsentFile == [kind |-> "absent", data |-> NoTokenData]
CorruptFile == [kind |-> "corrupt", data |-> NoTokenData]

\* outcomes of fs.writeFile: written, failed before the file was opened,
\* failed after the file was truncated
WriteOutcomes == {"ok", "failed", "truncated"}

\* lines 790-796 handing the whole session object to JSON.stringify
dataToPersistWholeSession(sessionInstance) == sessionInstance

dataToPersist(sessionInstance) ==
    [userId |-> sessionInstance.userId,
     countryCode |-> sessionInstance.countryCode,
     accessToken |-> sessionInstance.accessToken,
     refreshToken |-> sessionInstance.refreshToken,
     tokenExpiresAtTimestamp |-> sessionInstance.tokenExpiresAtTimestamp]

persistSession(sessionInstance, old, outcome) ==
    CASE outcome = "ok" -> [kind |-> "json", data |-> dataToPersist(sessionInstance)]
      [] outcome = "failed" -> old
      [] OTHER -> CorruptFile

\* lines 806-810 without the catch block of lines 811-818
retrievePersistedSessionUncaught(f) ==
    IF f.kind = "json" THEN TidalAuthSession(f.data)
    ELSE [raised |-> IF f.kind = "absent" THEN "ENOENT" ELSE "SyntaxError"]

retrievePersistedSession(f) ==
    IF f.kind = "json" THEN TidalAuthSession(f.data)
    ELSE TidalAuthSession(<<>>)

StoredToken(expiry, refresh) ==
    [kind |-> "json",
     data |-> [userId |-> "u0", countryCode |-> "US", accessToken |-> "A0",
               refreshToken |-> refresh, tokenExpiresAtTimestamp |-> expiry]]

InitialFiles ==
    {AbsentFile, CorruptFile, StoredToken(NullNum, "R0"),
     StoredToken(Num(StartTime - 1000), Null),
     StoredToken(Num(StartTime + 1000), Null)}
    \cup {StoredToken(Num(StartTime + d), "R0") : d \in {-1000, 0, 1000}}

(***************************************************************************)
(* Responses of the authorization server.                                  *)
(***************************************************************************)
NoUser == [present |-> FALSE, userId |-> Null, countryCode |-> Null]
NoToken == [access_token |-> Null, refresh_token |-> Null, expires_in |-> 0, user |-> NoUser]
NoError == [status |-> NullNum, sub_status |-> NullNum]
NoDevice == [deviceCode |-> Null, userCode |-> Null, verificationUri |-> Null,
             verificationUriComplete |-> Null, expiresIn |-> 0, interval |-> 0]

TokenData ==
    {[access_token |-> "A1", refresh_token |-> "R1", expires_in |-> 3600,
      user |-> [present |-> TRUE, userId |-> "u1", countryCode |-> "DE"]],
     [access_token |-> "A1", refresh_token |-> Null, expires_in |-> 1,
      user |-> NoUser]}

ErrorData ==
    {[status |-> Num(400), sub_status |-> Num(1002)],
     [status |-> Num(400), sub_status |-> Num(1001)],
     [status |-> Num(401), sub_status |-> Num(1002)]}

Device(complete, expiresIn, interval) ==
    [deviceCode |-> "D1", userCode |-> "U1", verificationUri |-> "link.tidal.com",
     verificationUriComplete |-> complete, expiresIn |-> expiresIn,
     interval |-> interval]

DeviceData ==
    {Device(Null, 0, 1), Device("link.tidal.com/U1", 2, 1),
     Device(Null, 2, 2), Device("link.tidal.com/U1", 3, 2)}

Resp(status, parsable, token, err, device) ==
    [status |-> status, parsable |-> parsable, token |-> token, err |-> err,
     device |-> device]

NoResponse == Resp(0, FALSE, NoToken, NoError, NoDevice)

ok(resp) == resp.status >= 200 /\ resp.status <= 299

\* the responses other than 429 that an endpoint can give
TokenResponses ==
    {Resp(200, TRUE, t, NoError, NoDevice) : t \in TokenData}
    \cup {Resp(400, TRUE, NoToken, e, NoDevice) : e \in ErrorData}
    \cup {Resp(400, FALSE, NoToken, NoError, NoDevice),
          Resp(200, FALSE, NoToken, NoError, NoDevice)}

DeviceResponses ==
    {Resp(200, TRUE, NoToken, NoError, d) : d \in DeviceData}
    \cup {Resp(400, TRUE, NoToken, [status |-> Num(400), sub_status |-> Num(1001)], NoDevice),
          Resp(500, FALSE, NoToken, NoError, NoDevice),
          Resp(200, FALSE, NoToken, NoError, NoDevice)}

Responses(e) == IF e = "device_authorization" THEN DeviceResponses ELSE TokenResponses

parseErrorResponse(resp) ==
    IF resp.parsable THEN resp.err
    ELSE [status |-> Num(resp.status), sub_status |-> NullNum]

\* Retry-After header values; "" is an absent header
RetryAfterHeaders == {"", "0", "5"}

parseInt(s) ==
    CASE s = "0" -> 0
      [] s = "1" -> 1
      [] s = "2" -> 2
      [] s = "5" -> 5
      [] s = "20" -> 20
      [] s = "-1" -> -1
      [] s = "500000" -> 500000
      [] s = "900000" -> 900000
      [] s = "1500000" -> 1500000

String(n) == CASE n = 20 -> "20" [] n = 5 -> "5" [] n = 0 -> "0"

\* line 826 without the header read
retryAfterSecondsIgnoringHeader(header) ==
    parseInt(String(DEFAULT_HTTP_RETRY_DELAY_SECONDS))

\* parseInt(response.headers.get('Retry-After') || String(DEFAULT_...), 10)
retryAfterSeconds(header) ==
    parseInt(IF header # "" THEN header ELSE String(DEFAULT_HTTP_RETRY_DELAY_SECONDS))

(***************************************************************************)
(* fetchWithRetries                                                        *)
(***************************************************************************)
NoWait == [cause |-> "none", header |-> "", attempt |-> 0, ms |-> 0]

NoStats == [reqs |-> 0, n429 |-> 0, nfail |-> 0, wait |-> NoWait, error |-> "none"]

Endpoints == {"device_authorization", "token_refresh", "token_poll"}

\* the state in which fetchWithRetries(url, fetchOptions) has just been called
CallFetch(e) ==
    /\ fpc' = "issue"
    /\ attempt' = 1
    /\ endpoint' = e
    /\ response' = NoResponse
    /\ stats' = NoStats
    /\ hist' = [hist EXCEPT !.calls[e] = @ + 1]

FetchIdle == UNCHANGED <<fpc, attempt, endpoint, response, stats>>

Requested == [hist EXCEPT !.sent[endpoint] = TRUE]

\* line 837 with a delay that does not grow with the attempt
genericRetryDelayFixed(attemptNumber) == GENERIC_RETRY_BASE_MILLISECONDS

\* line 837: the backoff after a failed attempt
genericRetryDelay(attemptNumber) == GENERIC_RETRY_BASE_MILLISECONDS * attemptNumber

\* lines 823-831 with server errors sent back into the loop like a 429
FetchResponseRetryingServerErrors ==
    /\ fpc = "issue"
    /\ \E r \in Responses(endpoint) :
        /\ response' = r
        /\ stats' = [stats EXCEPT !.reqs = @ + 1]
        /\ hist' = Requested
        /\ IF r.status >= 500
           THEN /\ attempt' = attempt + 1
                /\ fpc' = IF attempt + 1 <= DEFAULT_FETCH_MAX_RETRIES
                          THEN "issue" ELSE "raised"
           ELSE /\ fpc' = "returned"
                /\ UNCHANGED attempt
    /\ UNCHANGED <<now, file, session, op, pc, result, endpoint, job, eval>>

\* a response with a status other than 429 is returned to the caller
FetchResponse ==
    /\ fpc = "issue"
    /\ \E r \in Responses(endpoint) :
        /\ response' = r
        /\ fpc' = "returned"
        /\ stats' = [stats EXCEPT !.reqs = @ + 1]
        /\ hist' = Requested
    /\ UNCHANGED <<now, file, session, op, pc, result, attempt, endpoint, job, eval>>

\* status 429 with a `continue` that leaves the attempt counter as it is
FetchRateLimitedFreeOfAttempts ==
    /\ fpc = "issue"
    /\ \E header \in RetryAfterHeaders :
        LET wait == retryAfterSeconds(header) * 1000 IN
        /\ now' = now + wait
        /\ stats' = [stats EXCEPT
                !.reqs = @ + 1, !.n429 = @ + 1,
                !.wait = [cause |-> "429", header |-> header,
                          attempt |-> attempt, ms |-> wait]]
    /\ hist' = Requested
    /\ UNCHANGED <<file, session, op, pc, result, attempt, fpc, endpoint, response,
                   job, eval>>

\* status 429: sleep, then `continue` runs the loop's attempt++ and test
FetchRateLimited ==
    /\ fpc = "issue"
    /\ \E header \in RetryAfterHeaders :
        LET wait == retryAfterSeconds(header) * 1000 IN
        /\ now' = now + wait
        /\ stats' = [stats EXCEPT
                !.reqs = @ + 1, !.n429 = @ + 1,
                !.wait = [cause |-> "429", header |-> header,
                          attempt |-> attempt, ms |-> wait],
                !.error = IF attempt + 1 <= DEFAULT_FETCH_MAX_RETRIES
                          THEN "none" ELSE "exhausted"]
    /\ attempt' = attempt + 1
    /\ fpc' = IF attempt + 1 <= DEFAULT_FETCH_MAX_RETRIES THEN "issue" ELSE "raised"
    /\ hist' = Requested
    /\ UNCHANGED <<file, session, op, pc, result, endpoint, response, job, eval>>

\* fetch() rejects: connection error or timeout
FetchNetworkFailure ==
    /\ fpc = "issue"
    /\ hist' = Requested
    /\ IF attempt = DEFAULT_FETCH_MAX_RETRIES
       THEN /\ fpc' = "raised"
            /\ stats' = [stats EXCEPT !.reqs = @ + 1, !.nfail = @ + 1,
                                      !.error = "failed"]
            /\ UNCHANGED <<now, attempt>>
       ELSE LET wait == genericRetryDelay(attempt) IN
            /\ now' = now + wait
            /\ attempt' = attempt + 1
            /\ fpc' = "issue"
            /\ stats' = [stats EXCEPT
                    !.reqs = @ + 1, !.nfail = @ + 1,
                    !.wait = [cause |-> "network", header |-> "",
                              attempt |-> attempt, ms |-> wait]]
    /\ UNCHANGED <<file, session, op, pc, result, endpoint, response, job, eval>>

(***************************************************************************)
(* attemptTokenRefresh                                                     *)
(***************************************************************************)
Return(value) == pc' = "done" /\ result' = value

\* lines 938-958: no refresh token, or the refresh grant is requested
RefreshStart ==
    /\ pc = "refresh"
    /\ IF ~hasValidRefreshToken(session)
       THEN /\ IF op = "refresh" THEN Return("false")
               ELSE pc' = "device" /\ UNCHANGED result
            /\ hist' = [hist EXCEPT !.refreshRet = "false"]
            /\ FetchIdle
       ELSE /\ CallFetch("token_refresh")
            /\ pc' = "refresh_fetch"
            /\ UNCHANGED result
    /\ UNCHANGED <<now, file, session, op, job, eval>>

\* lines 960-974: the response of the refresh grant
RefreshResponse ==
    /\ pc = "refresh_fetch" /\ fpc = "returned"
    /\ fpc' = "idle"
    /\ IF ok(response)
       THEN IF response.parsable
            THEN \E w \in WriteOutcomes :
                 LET s == updateAccessTokens(session, response.token, now) IN
                 /\ session' = s
                 /\ file' = persistSession(s, file, w)
                 /\ hist' = [hist EXCEPT !.refreshRet = "true", !.writes = @ + 1,
                                         !.lastWrite = w,
                                         !.deviceAtWrite = s.deviceCode # Null]
                 /\ Return(IF op = "refresh" THEN "true" ELSE "session")
            ELSE \* response.json() rejects
                 /\ hist' = [hist EXCEPT !.refreshRet = "unparsable"]
                 /\ Return("raised")
                 /\ UNCHANGED <<session, file>>
       ELSE \E w \in WriteOutcomes :
            LET s == invalidateCurrentTokens(session) IN
            /\ session' = s
            /\ file' = persistSession(s, file, w)
            /\ hist' = [hist EXCEPT !.refreshRet = "false", !.writes = @ + 1,
                                    !.lastWrite = w,
                                    !.deviceAtWrite = s.deviceCode # Null]
            /\ IF op = "refresh" THEN Return("false")
               ELSE pc' = "device" /\ UNCHANGED result
    /\ UNCHANGED <<now, op, attempt, endpoint, response, stats, job, eval>>

\* fetchWithRetries raised: attemptTokenRefresh has no handler, and the call
\* at line 986 is outside establishAuthenticatedSession's try block
RefreshRaises ==
    /\ pc = "refresh_fetch" /\ fpc = "raised"
    /\ fpc' = "idle"
    /\ hist' = [hist EXCEPT !.refreshRet = "raised"]
    /\ Return("raised")
    /\ UNCHANGED <<now, file, session, op, attempt, endpoint, response, stats, job, eval>>

(***************************************************************************)
(* requestDeviceCode and pollForDeviceAccessToken, as called by            *)
(* establishAuthenticatedSession                                           *)
(***************************************************************************)
\* lines 992-995 and 855-866: the tokens are invalidated and the
\* device-authorization request is issued
DeviceFlowStart ==
    /\ pc = "device"
    /\ session' = invalidateCurrentTokens(session)
    /\ CallFetch("device_authorization")
    /\ pc' = "device_fetch"
    /\ UNCHANGED <<now, file, op, result, job, eval>>

\* a flow expiry that adds the seconds to the milliseconds
flowExpirySeconds(t, expiresIn) == t + expiresIn

\* line 877: Date.now() + (responseData.expiresIn * 1000)
flowExpiry(t, expiresIn) == t + expiresIn * 1000

\* lines 868-885; an error raised here is caught at line 1003
DeviceResponse ==
    /\ pc = "device_fetch" /\ fpc = "returned"
    /\ fpc' = "idle"
    /\ IF ok(response) /\ response.parsable
       THEN LET responseData == response.device IN
            /\ session' = [session EXCEPT
                    !.deviceCode = responseData.deviceCode,
                    !.userCode = responseData.userCode,
                    !.verificationUrl =
                        IF responseData.verificationUriComplete # Null
                        THEN responseData.verificationUriComplete
                        ELSE responseData.verificationUri,
                    !.authCheckTimeoutTimestamp =
                        Num(flowExpiry(now, responseData.expiresIn)),
                    !.authCheckIntervalMs = Num(responseData.interval * 1000)]
            /\ hist' = [hist EXCEPT !.flow = "started", !.deviceRet = "returned"]
            /\ pc' = "poll"
            /\ UNCHANGED result
       ELSE /\ hist' = [hist EXCEPT !.deviceRet = "raised"]
            /\ Return("null")
            /\ UNCHANGED session
    /\ UNCHANGED <<now, file, op, attempt, endpoint, response, stats, job, eval>>

\* line 921 without the sub_status test
isAuthorizationPendingByStatus(errorData) ==
    errorData.status = Num(400)

\* line 921
isAuthorizationPending(errorData) ==
    errorData.status = Num(400) /\ errorData.sub_status = Num(1002)

\* a loop test that never sees the expiry
beforeExpiryAlways(t, authCheckTimeoutTimestamp) == TRUE

\* line 906: Date.now() < sessionInstance.authCheckTimeoutTimestamp
beforeExpiry(t, authCheckTimeoutTimestamp) == t < authCheckTimeoutTimestamp[1]

\* lines 897-908 and 931-934: the loop test, the sleep and the token request,
\* or the timeout
PollLoop ==
    /\ pc = "poll"
    /\ IF beforeExpiry(now, session.authCheckTimeoutTimestamp)
       THEN /\ now' = now + session.authCheckIntervalMs[1]
            /\ CallFetch("token_poll")
            /\ pc' = "poll_fetch"
            /\ UNCHANGED <<session, result>>
       ELSE /\ session' = clearActiveDeviceAuthParameters(session)
            /\ hist' = [hist EXCEPT !.flow = "ended", !.pollOutcome = "timeout",
                                    !.pollRet = "false"]
            /\ Return("null")
            /\ UNCHANGED now
            /\ FetchIdle
    /\ UNCHANGED <<file, op, job, eval>>

\* lines 910-929: the response of one poll attempt
PollResponse ==
    /\ pc = "poll_fetch" /\ fpc = "returned"
    /\ fpc' = "idle"
    /\ IF ok(response)
       THEN IF response.parsable
            THEN \E w \in WriteOutcomes :
                 LET s == updateAccessTokens(session, response.token, now) IN
                 /\ file' = persistSession(s, file, w)
                 /\ session' = clearActiveDeviceAuthParameters(s)
                 /\ hist' = [hist EXCEPT !.flow = "ended", !.pollOutcome = "token",
                                         !.pollRet = "true", !.writes = @ + 1,
                                         !.lastWrite = w,
                                         !.deviceAtWrite = s.deviceCode # Null]
                 /\ Return("session")
            ELSE \* response.json() rejects; caught at line 1003
                 /\ hist' = [hist EXCEPT !.flow = "ended", !.pollOutcome = "unparsable",
                                         !.pollRet = "raised"]
                 /\ Return("null")
                 /\ UNCHANGED <<session, file>>
       ELSE LET errorData == parseErrorResponse(response) IN
            IF isAuthorizationPending(errorData)
            THEN /\ pc' = "poll"
                 /\ hist' = [hist EXCEPT !.pollOutcome = "pending"]
                 /\ UNCHANGED <<session, file, result>>
            ELSE /\ session' = clearActiveDeviceAuthParameters(session)
                 /\ hist' = [hist EXCEPT !.flow = "ended", !.pollOutcome = "rejected",
                                         !.pollRet = "false"]
                 /\ Return("null")
                 /\ UNCHANGED file
    /\ UNCHANGED <<now, op, attempt, endpoint, response, stats, job, eval>>

\* the catch block of lines 1003-1005 rethrowing
DeviceFlowCatchRethrows ==
    /\ pc \in {"device_fetch", "poll_fetch"} /\ fpc = "raised"
    /\ fpc' = "idle"
    /\ hist' = IF pc = "poll_fetch"
               THEN [hist EXCEPT !.flow = "ended", !.pollOutcome = "raised",
                                 !.pollRet = "raised"]
               ELSE [hist EXCEPT !.deviceRet = "raised"]
    /\ Return("raised")
    /\ UNCHANGED <<now, file, session, op, attempt, endpoint, response, stats, job, eval>>

\* lines 1003-1005: fetchWithRetries raised inside requestDeviceCode or
\* pollForDeviceAccessToken; neither has a handler
DeviceFlowCatch ==
    /\ pc \in {"device_fetch", "poll_fetch"} /\ fpc = "raised"
    /\ fpc' = "idle"
    /\ hist' = IF pc = "poll_fetch"
               THEN [hist EXCEPT !.flow = "ended", !.pollOutcome = "raised",
                                 !.pollRet = "raised"]
               ELSE [hist EXCEPT !.deviceRet = "raised"]
    /\ Return("null")
    /\ UNCHANGED <<now, file, session, op, attempt, endpoint, response, stats, job, eval>>

(***************************************************************************)
(* establishAuthenticatedSession                                           *)
(***************************************************************************)
\* lines 977-990
AuthStart ==
    /\ pc = "start" /\ op = "authenticate"
    /\ LET currentSession == retrievePersistedSession(file) IN
       /\ session' = currentSession
       /\ hist' = [hist EXCEPT !.loaded = currentSession]
       /\ IF isAccessTokenCurrentlyValid(currentSession, now)
          THEN Return("session")
          ELSE /\ pc' = IF hasValidRefreshToken(currentSession)
                        THEN "refresh" ELSE "device"
               /\ UNCHANGED result
    /\ FetchIdle
    /\ UNCHANGED <<now, file, op, job, eval>>

\* attemptTokenRefresh (exported as refreshAccessToken) called on a loaded
\* session
RefreshInvoke ==
    /\ pc = "start" /\ op = "refresh"
    /\ LET currentSession == retrievePersistedSession(file) IN
       /\ session' = currentSession
       /\ hist' = [hist EXCEPT !.loaded = currentSession]
    /\ pc' = "refresh"
    /\ FetchIdle
    /\ UNCHANGED <<now, file, op, result, job, eval>>

\* no function is being applied
NoEval == [fn |-> "none", input |-> <<>>, output |-> <<>>]

NoHist ==
    [loaded |-> SessionDefaults,
     calls |-> [e \in Endpoints |-> 0], sent |-> [e \in Endpoints |-> FALSE],
     writes |-> 0,
     lastWrite |-> "none", deviceAtWrite |-> FALSE, refreshRet |-> "none", deviceRet |-> "none",
     pollRet |-> "none", pollOutcome |-> "none", flow |-> "none"]

(***************************************************************************)
(* The playlist parsers of v2/video.mjs.  A playlist is the sequence of    *)
(* lines that split('\n') gives.  A line is a record: ws is the white      *)
(* space around it ("\r", blanks), head its leading token, bandwidth,      *)
(* resolution and codecs the attribute values of a stream-inf line ("" for *)
(* an attribute that is not there), host, dir, base, ext and query the     *)
(* parts of a URL or path (ext is "" or begins with the only dot of the    *)
(* path).                                                                  *)
(***************************************************************************)
MaxMasterLines == 6     \* longest master playlist

PlaylistLine(ws, head, bandwidth, resolution, codecs, host, dir, base, ext, query) ==
    [ws |-> ws, head |-> head, bandwidth |-> bandwidth,
     resolution |-> resolution, codecs |-> codecs,
     host |-> host, dir |-> dir, base |-> base, ext |-> ext, query |-> query]

NoLine == PlaylistLine("", "", "", "", "", "", "", "", "", "")

StreamInfLine(bandwidth, resolution, codecs) ==
    PlaylistLine("", "#EXT-X-STREAM-INF:", bandwidth, resolution, codecs,
                 "", "", "", "", "")

UrlLine(ws, scheme, host, dir, base, ext, query) ==
    PlaylistLine(ws, scheme, "", "", "", host, dir, base, ext, query)

\* String.prototype.trim
trim(line) == [line EXCEPT !.ws = ""]

\* the characters of a trimmed line
LineText(line) ==
    line.head
        \o (IF line.bandwidth # "" THEN "BANDWIDTH=" \o line.bandwidth ELSE "")
        \o (IF line.resolution # "" THEN ",RESOLUTION=" \o line.resolution ELSE "")
        \o (IF line.codecs # "" THEN ",CODECS=\"" \o line.codecs \o "\"" ELSE "")
        \o line.host \o line.dir \o line.base \o line.ext \o line.query

\* String.prototype.startsWith on a trimmed line, for the prefixes the
\* parsers test
startsWith(line, prefix) ==
    IF prefix = "#"
    THEN line.head \in {"#", "#EXTM3U", "#EXTINF:", "#EXT-X-STREAM-INF:"}
    ELSE line.head = prefix

RECURSIVE parseStreams(_, _, _)
\* lines 29-46: the loop over the lines
parseStreams(lines, currentStreamInfoLine, streams) ==
    IF lines = <<>> THEN streams
    ELSE LET trimmedLine == trim(Head(lines)) IN
         IF startsWith(trimmedLine, "#EXT-X-STREAM-INF:")
         THEN parseStreams(Tail(lines), trimmedLine, streams)
         ELSE IF /\ currentStreamInfoLine # NoLine
                 /\ \/ startsWith(trimmedLine, "http://")
                    \/ startsWith(trimmedLine, "https://")
              THEN parseStreams(Tail(lines), NoLine,
                     Append(streams,
                        [resolution |-> IF currentStreamInfoLine.resolution # ""
                                        THEN currentStreamInfoLine.resolution
                                        ELSE "Unknown",
                         bandwidth |-> IF currentStreamInfoLine.bandwidth # ""
                                       THEN parseInt(currentStreamInfoLine.bandwidth)
                                       ELSE 0,
                         codecs |-> IF currentStreamInfoLine.codecs # ""
                                    THEN currentStreamInfoLine.codecs
                                    ELSE "Unknown",
                         url |-> LineText(trimmedLine)]))
              ELSE parseStreams(Tail(lines), currentStreamInfoLine, streams)

\* the comparator of line 47: negative when a goes before b
compareBandwidth(a, b) == b.bandwidth - a.bandwidth

RECURSIVE insertSorted(_, _)
\* x put into the sorted sequence after every element it does not go before
insertSorted(sorted, x) ==
    IF sorted = <<>> THEN <<x>>
    ELSE IF compareBandwidth(x, Head(sorted)) < 0
         THEN <<x>> \o sorted
         ELSE <<Head(sorted)>> \o insertSorted(Tail(sorted), x)

RECURSIVE sortFrom(_, _)
sortFrom(sorted, rest) ==
    IF rest = <<>> THEN sorted
    ELSE sortFrom(insertSorted(sorted, Head(rest)), Tail(rest))

\* a sort that lets an element pass the elements it compares equal to
sortUnstable(streams) ==
    IF Len(streams) >= 2
            /\ compareBandwidth(streams[1], streams[2]) = 0
    THEN sortFrom(<<>>, <<streams[2], streams[1]>> \o SubSeq(streams, 3, Len(streams)))
    ELSE sortFrom(<<>>, streams)

\* Array.prototype.sort with the comparator of line 47: a stable sort
sort(streams) == sortFrom(<<>>, streams)

parseM3U8MasterPlaylist(m3u8Content) ==
    sort(parseStreams(m3u8Content, NoLine, <<>>))

MasterLines ==
    {StreamInfLine("500000", "640x360", "avc1"),
     StreamInfLine("900000", "", ""),
     StreamInfLine("1500000", "1920x1080", "avc1"),
     StreamInfLine("", "320x180", ""),
     UrlLine("", "https://", "cdn", "/v/", "a", ".m3u8", ""),
     UrlLine("\r", "http://", "cdn", "/v/", "b", ".m3u8", "?t=1"),
     NoLine}

MasterPlaylists == UNION {[1..n -> MasterLines] : n \in 1..MaxMasterLines}

MaxMediaLines == 5      \* longest media playlist

\* line 59 without the test for a comment
isSegmentLineKeepingComments(trimmedLine) == Len(LineText(trimmedLine)) > 0

\* line 59: the line is not blank and is not a comment
isSegmentLine(trimmedLine) ==
    Len(LineText(trimmedLine)) > 0 /\ ~startsWith(trimmedLine, "#")

\* new URL(trimmedLine) accepts a line that begins with a scheme and throws
\* on one that does not
isAbsoluteUrl(trimmedLine) == trimmedLine.head \in {"http://", "https://"}

\* path.basename: the last component of a path that ends in "/"
lastDirectory(dir) ==
    CASE dir = "/v/" -> "v"
      [] dir = "/" -> ""
      [] dir = "" -> ""

\* path.basename(urlObject.pathname)
basename(trimmedLine) ==
    IF trimmedLine.base \o trimmedLine.ext # ""
    THEN trimmedLine.base \o trimmedLine.ext
    ELSE lastDirectory(trimmedLine.dir)

\* baseName.includes('.')
includesDot(trimmedLine) == trimmedLine.ext # ""

\* lines 62-68: the local filename of the segmentCounter-th segment
segmentFilename(trimmedLine, segmentCounter) ==
    IF isAbsoluteUrl(trimmedLine) /\ includesDot(trimmedLine)
    THEN basename(trimmedLine)
    ELSE "segment_" \o ToString(segmentCounter) \o ".ts"

RECURSIVE parseSegments(_, _, _)
\* lines 57-70: the loop over the lines
parseSegments(lines, segmentCounter, parsed) ==
    IF lines = <<>> THEN parsed
    ELSE LET trimmedLine == trim(Head(lines)) IN
         IF isSegmentLine(trimmedLine)
         THEN parseSegments(Tail(lines), segmentCounter + 1,
                [urls |-> Append(parsed.urls, LineText(trimmedLine)),
                 filenames |-> Append(parsed.filenames,
                        segmentFilename(trimmedLine, segmentCounter + 1))])
         ELSE parseSegments(Tail(lines), segmentCounter, parsed)

parseM3U8MediaPlaylist(m3u8Content) ==
    parseSegments(m3u8Content, 0, [urls |-> <<>>, filenames |-> <<>>])

MediaLines ==
    {PlaylistLine("", "#EXTM3U", "", "", "", "", "", "", "", ""),
     PlaylistLine("\r", "#EXTINF:", "", "", "", "", "", "4.0,", "", ""),
     NoLine,
     PlaylistLine("  ", "", "", "", "", "", "", "", "", ""),
     UrlLine("", "https://", "cdn", "/v/", "1", ".ts", ""),
     UrlLine("\r", "http://", "cdn", "/v/", "2", ".ts", "?t=1"),
     UrlLine("", "https://", "cdn", "/v/", "", "", ""),
     UrlLine("", "", "", "", "3", ".ts", "")}

MediaPlaylists == UNION {[1..n -> MediaLines] : n \in 1..MaxMediaLines}

(***************************************************************************)
(* parseManifestAndExtractSegments of v2/music.mjs.  A manifest is a       *)
(* record: xml tells whether the playback info carries a manifest and      *)
(* whether xml2js parses it; representation and segmentTemplate tell       *)
(* whether the element is there; initialization and media are the URL      *)
(* attributes of SegmentTemplate, startNumber its startNumber attribute    *)
(* ("" for an attribute that is not there); timeline is the S elements of  *)
(* SegmentTimeline, each with its r attribute ("" when it has none).  A    *)
(* URL is a record of its parts; number tells whether the text $Number$    *)
(* stands between base and ext.                                            *)
(***************************************************************************)
MaxTimeline == 2        \* most S elements of a SegmentTimeline

Url(dir, base, number, ext, query) ==
    [dir |-> dir, base |-> base, number |-> number, ext |-> ext, query |-> query]

NoUrl == Url("", "", FALSE, "", "")

UrlText(u) ==
    u.dir \o u.base \o (IF u.number THEN "$Number$" ELSE "") \o u.ext \o u.query

NoTimeline == [present |-> FALSE, S |-> <<>>]

Slice(r) == [d |-> "1920", r |-> r]

Manifest(xml, representation, segmentTemplate, initialization, media, startNumber, timeline) ==
    [xml |-> xml, representation |-> representation,
     segmentTemplate |-> segmentTemplate, initialization |-> initialization,
     media |-> media, startNumber |-> startNumber, timeline |-> timeline]

\* lines 38-57 without the test of the timeline of lines 58-61
manifestErrorWithoutTimelineCheck(m) ==
    CASE m.xml # "ok" -> "xml"
      [] ~m.representation -> "Representation"
      [] ~m.segmentTemplate -> "SegmentTemplate"
      [] \/ UrlText(m.initialization) = ""
         \/ UrlText(m.media) = ""
         \/ m.startNumber = "" -> "attributes"
      [] OTHER -> "none"

\* lines 38-61: the error the manifest is rejected with, "none" when it is
\* accepted
manifestError(m) ==
    CASE m.xml # "ok" -> "xml"
      [] ~m.representation -> "Representation"
      [] ~m.segmentTemplate -> "SegmentTemplate"
      [] \/ UrlText(m.initialization) = ""
         \/ UrlText(m.media) = ""
         \/ m.startNumber = "" -> "attributes"
      [] ~m.timeline.present \/ Len(m.timeline.S) = 0 -> "SegmentTimeline"
      [] OTHER -> "none"

\* line 67 taking r for the number of segments of the entry
repeatCountAsTotal(segment) ==
    IF segment.r # "" THEN parseInt(segment.r) - 1 ELSE 0

\* line 67
repeatCount(segment) == IF segment.r # "" THEN parseInt(segment.r) ELSE 0

\* line 69: String.prototype.replace puts the number in place of $Number$
replaceNumber(mediaUrlTemplate, currentSegmentNumber) ==
    IF mediaUrlTemplate.number
    THEN [mediaUrlTemplate EXCEPT !.number = FALSE,
                                  !.base = @ \o ToString(currentSegmentNumber)]
    ELSE mediaUrlTemplate

\* path.basename(new URL(u, 'http://dummybase').pathname)
urlBasename(u) == u.base \o u.ext

RECURSIVE emitSegments(_, _, _, _, _)
\* lines 68-73: the loop over i, from i on
emitSegments(mediaUrlTemplate, i, count, currentSegmentNumber, parsed) ==
    IF i > count THEN parsed
    ELSE LET mediaUrl == replaceNumber(mediaUrlTemplate, currentSegmentNumber) IN
         emitSegments(mediaUrlTemplate, i + 1, count, currentSegmentNumber + 1,
            [parsed EXCEPT
                !.segmentUrls = Append(@, UrlText(mediaUrl)),
                !.segmentBasenames = Append(@, urlBasename(mediaUrl)),
                !.currentSegmentNumber = currentSegmentNumber + 1])

RECURSIVE forEachSlice(_, _, _)
\* lines 66-74
forEachSlice(mediaUrlTemplate, segmentTimelineSlices, parsed) ==
    IF segmentTimelineSlices = <<>> THEN parsed
    ELSE forEachSlice(mediaUrlTemplate, Tail(segmentTimelineSlices),
            emitSegments(mediaUrlTemplate, 0,
                         repeatCount(Head(segmentTimelineSlices)),
                         parsed.currentSegmentNumber, parsed))

parseManifestAndExtractSegments(m) ==
    IF manifestError(m) # "none"
    THEN [error |-> manifestError(m), segmentUrls |-> <<>>, segmentBasenames |-> <<>>]
    ELSE LET parsed == forEachSlice(m.media, m.timeline.S,
                [segmentUrls |-> <<UrlText(m.initialization)>>,
                 segmentBasenames |-> <<urlBasename(m.initialization)>>,
                 currentSegmentNumber |-> parseInt(m.startNumber)])
         IN [error |-> "none", segmentUrls |-> parsed.segmentUrls,
             segmentBasenames |-> parsed.segmentBasenames]

InitUrl == Url("https://cdn/t/", "0", FALSE, ".mp4", "?token=x")

NumberedUrl == Url("https://cdn/t/", "", TRUE, ".mp4", "?token=x")

FixedUrl == Url("https://cdn/t/", "1", FALSE, ".mp4", "")

Timelines ==
    {NoTimeline}
    \cup {[present |-> TRUE, S |-> slices] :
            slices \in UNION {[1..n -> {Slice(r) : r \in {"", "0", "1", "2", "-1"}}] :
                                n \in 0..MaxTimeline}}

Manifests ==
    {Manifest(xml, representation, segmentTemplate, initialization, media,
              startNumber, timeline) :
        xml \in {"ok", "malformed"}, representation \in BOOLEAN,
        segmentTemplate \in BOOLEAN, initialization \in {NoUrl, InitUrl},
        media \in {NoUrl, NumberedUrl, FixedUrl},
        startNumber \in {"", "0", "1"}, timeline \in Timelines}

(***************************************************************************)
(* downloadMusicTrack (v2/music.mjs) and downloadVideo (v2/video.mjs).     *)
(* A job is a record: kind, pc, the resolved local filenames in manifest   *)
(* order, tempDirPath ("" until assigned), the temp directory's state and  *)
(* files, the loop position, the bytes queued on the output stream, the    *)
(* pending completion of the try block and the error it raised.  A music   *)
(* job has the manifest that its playback info carries.  A video job       *)
(* begins with fetchAvailableVideoStreams, whose master playlist is kept   *)
(* in master when no stream comes out of it and whose result is counted in *)
(* variants; its filenames are those of the media playlist it is answered  *)
(* with, kept in playlist.  temp maps each file name of the temp directory *)
(* to the state of the file.                                               *)
(***************************************************************************)
\* contents a retrieved segment file can have
Blobs == {<<7>>, <<8, 9>>}

MissingFile == [state |-> "missing", bytes |-> <<>>]
UnreadableFile == [state |-> "unreadable", bytes |-> <<>>]
TempFileStates ==
    {MissingFile, UnreadableFile} \cup {[state |-> "ok", bytes |-> b] : b \in Blobs}

\* the master playlists a video is answered with
JobMasters == {m3u8Content \in MasterPlaylists : Len(m3u8Content) <= 3}

\* the lines of the media playlists a video job is answered with
JobPlaylistLines ==
    {PlaylistLine("\r", "#EXTINF:", "", "", "", "", "", "4.0,", "", ""),
     NoLine,
     UrlLine("", "https://", "cdn", "/v/", "1", ".ts", ""),
     UrlLine("\r", "http://", "cdn", "/v/", "2", ".ts", "?t=1"),
     UrlLine("", "https://", "cdn", "/", "1", ".ts", ""),
     UrlLine("", "https://", "cdn", "/v/", "", "", "")}

JobPlaylists == UNION {[1..n -> JobPlaylistLines] : n \in 1..MaxSegments}

\* the set of the elements of a sequence
Names(segmentFilenames) ==
    {segmentFilenames[k] : k \in 1..Len(segmentFilenames)}

\* an accepted manifest
ValidManifest(media, startNumber, slices) ==
    Manifest("ok", TRUE, TRUE, InitUrl, media, startNumber,
             [present |-> TRUE, S |-> slices])

\* what a video job has in place of a manifest, and a music job whose
\* playback info carries none (lines 105-108)
NoManifest ==
    Manifest("absent", FALSE, FALSE, NoUrl, NoUrl, "", NoTimeline)

\* manifests that lack one thing
DefectiveManifests ==
    LET m == ValidManifest(NumberedUrl, "1", <<Slice("1")>>) IN
    {NoManifest,
     [m EXCEPT !.xml = "malformed"],
     [m EXCEPT !.representation = FALSE],
     [m EXCEPT !.segmentTemplate = FALSE],
     [m EXCEPT !.initialization = NoUrl],
     [m EXCEPT !.media = NoUrl],
     [m EXCEPT !.startNumber = ""],
     [m EXCEPT !.timeline = NoTimeline],
     [m EXCEPT !.timeline.S = <<>>]}

JobManifests ==
    {ValidManifest(NumberedUrl, "1", <<Slice("")>>),
     ValidManifest(NumberedUrl, "1", <<Slice("1")>>),
     ValidManifest(NumberedUrl, "1", <<Slice(""), Slice("0")>>),
     ValidManifest(NumberedUrl, "0", <<Slice("")>>),
     ValidManifest(FixedUrl, "1", <<Slice("1")>>)}
    \cup DefectiveManifests

NewJob(kind, names, manifest) ==
    [kind |-> kind,
     pc |-> IF kind = "video" THEN "streams" ELSE "resolve",
     master |-> <<>>,
     variants |-> 0,
     playlist |-> <<>>,
     manifest |-> manifest,
     segmentUrls |-> <<>>,
     segmentFilenames |-> names,
     outputBasename |-> IF kind = "music" THEN "1_LOSSLESS.flac" ELSE "",
     tempDirPath |-> "",
     tempExists |-> FALSE,
     created |-> FALSE,
     temp |-> [n \in {} |-> MissingFile],
     i |-> 0,
     output |-> <<>>,
     skipped |-> 0,
     staged |-> <<>>,
     command |-> [d |-> "", i |-> ""],
     accelerated |-> 0,
     running |-> FALSE,
     exit |-> NullNum,
     captured |-> "",
     pending |-> "none",
     value |-> [success |-> FALSE],
     error |-> "none",
     stderr |-> "",
     cleanup |-> "none"]

IdleJob == [NewJob("music", <<>>, NoManifest) EXCEPT !.pc = "idle"]

\* control leaves the try block by a throw: the catch block logs and
\* rethrows, then the finally block runs
Throw(j, cause) == [j EXCEPT !.pc = "cleanup", !.pending = "raised", !.error = cause]

\* a download step that drops the tokens of the session it was handed
AuthIdleButTokens ==
    /\ session' = invalidateCurrentTokens(session)
    /\ UNCHANGED <<now, file, op, pc, result, fpc, attempt, endpoint, response,
                   stats, hist>>

AuthIdle == UNCHANGED authVars

\* a test that lets every list pass
isEmptyNever(list) == FALSE

\* video lines 111 and 207: list.length === 0
isEmpty(list) == Len(list) = 0

\* video lines 74-116: fetchAvailableVideoStreams raises on a failed
\* request, on playback info without a manifest or without a URL, and on a
\* master playlist that no stream comes out of; the caller then starts no
\* download
JobFetchStreams ==
    /\ job.pc = "streams"
    /\ \/ job' = [job EXCEPT !.pc = "nostreams", !.error = "request"]
       \/ \E m3u8Content \in JobMasters :
            LET availableStreams == parseM3U8MasterPlaylist(m3u8Content) IN
            job' = IF isEmpty(availableStreams)
                   THEN [job EXCEPT !.pc = "nostreams", !.error = "streams",
                                    !.master = m3u8Content]
                   ELSE [job EXCEPT !.pc = "select",
                                    !.variants = Len(availableStreams)]
    /\ AuthIdle /\ UNCHANGED eval

\* startup.mjs lines 282-286 and 327-337: the quality prompt returns one of
\* the listed streams; then fs.mkdir of the output directory, whose error
\* leaves handleVideoDownload before downloadVideo is called
JobSelectStream ==
    /\ job.pc = "select"
    /\ \/ job' = [job EXCEPT !.pc = "aborted", !.error = "outputdir"]
       \/ job' = [job EXCEPT !.pc = "name"]
    /\ AuthIdle /\ UNCHANGED eval

\* the page behind tidalUrl: the request fails, or the page has no title
\* tag, or its title is title \o " on TIDAL"
TitlePages ==
    {[ok |-> FALSE, title |-> Null], [ok |-> TRUE, title |-> Null],
     [ok |-> TRUE, title |-> "Song"]}

\* video lines 117-132: the title without its " on TIDAL" ending, null when
\* the request fails or no title is found
scrapeVideoTitleFromUrl(page) == IF page.ok THEN page.title ELSE Null

\* what the user types at the filename prompt
FilenameAnswers == {"", "y", "n", "N"}

toLowerCase(answer) == IF answer = "N" THEN "n" ELSE answer

\* video lines 147-179; the stream URLs of the master playlists have no
\* part like 720p or 1280x720, so qualityTag stays 'selected_quality'
determineOutputFilenameAndTempBase(videoId, scrapedTitle, useScraped) ==
    IF scrapedTitle # Null /\ toLowerCase(useScraped) # "n"
    THEN [outputBasename |-> scrapedTitle \o ".ts",
          tempDirIdentifier |-> scrapedTitle]
    ELSE [outputBasename |-> videoId \o "_selected_quality.ts",
          tempDirIdentifier |-> videoId \o "_selected_quality"]

\* video lines 195-197: downloadVideo settles the output name and the temp
\* directory's path (the time stamp at its end is left out) before its try
\* block
JobNameOutput ==
    /\ job.pc = "name"
    /\ \E page \in TitlePages, useScraped \in FilenameAnswers :
         LET named == determineOutputFilenameAndTempBase(
                          "1", scrapeVideoTitleFromUrl(page), useScraped) IN
         job' = [job EXCEPT !.outputBasename = named.outputBasename,
                            !.tempDirPath = "temp_tidal_video_" \o named.tempDirIdentifier,
                            !.pc = "resolve"]
    /\ AuthIdle /\ UNCHANGED eval

\* music lines 100-114: the playback info request, the manifest of the
\* response and its parsing; video lines 200-209: the media playlist is
\* fetched and parsed
JobResolve ==
    /\ job.pc = "resolve"
    /\ \/ job' = Throw(job, "request")
       \/ /\ job.kind = "music"
          /\ LET parsed == parseManifestAndExtractSegments(job.manifest) IN
             job' = IF parsed.error # "none"
                    THEN Throw(job, "manifest")
                    ELSE [job EXCEPT !.segmentUrls = parsed.segmentUrls,
                                     !.segmentFilenames = parsed.segmentBasenames,
                                     !.pc = "mkdir"]
       \/ /\ job.kind = "video"
          /\ \E m3u8Content \in JobPlaylists :
               LET parsed == parseM3U8MediaPlaylist(m3u8Content)
                   j == [job EXCEPT !.playlist = m3u8Content] IN
               job' = IF isEmpty(parsed.urls)
                      THEN Throw(j, "manifest")
                      ELSE [j EXCEPT !.segmentUrls = parsed.urls,
                                     !.segmentFilenames = parsed.filenames,
                                     !.pc = "mkdir"]
    /\ AuthIdle /\ UNCHANGED eval

\* music lines 116-118; video lines 211-213
JobMkdir ==
    /\ job.pc = "mkdir"
    /\ LET j == [job EXCEPT !.tempDirPath =
                    IF job.kind = "music" THEN "temp_tidal_music" ELSE @] IN
       \/ job' = Throw(j, "mkdir")
       \/ job' = [j EXCEPT !.tempExists = TRUE, !.created = TRUE, !.pc = "stage"]
    /\ AuthIdle /\ UNCHANGED eval

\* video line 12
DEFAULT_USER_AGENT ==
    "Mozilla/5.0 (Windows NT 10.0; Win64; x64) AppleWebKit/537.36 (KHTML, like Gecko) Chrome/120.0.0.0 Safari/537.36"

\* an input file of the URLs alone
aria2cInputLinesUrlsOnly(kind, segmentUrls) == segmentUrls

\* music line 121, video lines 216-217: the lines of the text that is
\* written to the input file; segmentUrls.join('\n') for music, and for
\* video each URL with its header line, joined by '\n'
aria2cInputLines(kind, segmentUrls) ==
    IF kind = "video"
    THEN [k \in 1..(2 * Len(segmentUrls)) |->
            IF k % 2 = 1
            THEN segmentUrls[(k + 1) \div 2]
            ELSE " header=User-Agent: " \o DEFAULT_USER_AGENT]
    ELSE segmentUrls

\* music line 120, video line 215: path.join(tempDirPath, 'segment_urls.txt')
aria2cInputFilePath(tempDirPath) == tempDirPath \o "/segment_urls.txt"

\* music lines 120-122; video lines 215-218: the accelerator's input file
JobStage ==
    /\ job.pc = "stage"
    /\ \/ job' = Throw(job, "stage")
       \/ job' = [job EXCEPT !.staged = aria2cInputLines(job.kind, job.segmentUrls),
                             !.pc = "accelerate"]
    /\ AuthIdle /\ UNCHANGED eval

\* what aria2c can have written to its standard error when it exits
AcceleratorOutputs == {"", "errors occurred"}

\* an exec that resolves whatever the exit code
execRejectsNever(code) == FALSE

\* child_process.exec (promisified): the promise is rejected when the
\* process exits with a code other than 0
execRejects(code) == code # 0

\* an exec whose promise is not awaited: the job goes on at once
execNotAwaited(j) == [j EXCEPT !.pc = "open"]

\* music line 127; video line 223: await execAsync(...) suspends the job
\* until the process has exited
awaitExec(j) == [j EXCEPT !.pc = "accelerating"]

\* music lines 124-127; video lines 220-223: aria2c is started
JobAccelerate ==
    /\ job.pc = "accelerate"
    /\ job' = awaitExec([job EXCEPT
                !.command = [d |-> job.tempDirPath,
                             i |-> aria2cInputFilePath(job.tempDirPath)],
                !.accelerated = @ + 1, !.running = TRUE])
    /\ AuthIdle /\ UNCHANGED eval

\* music lines 127-128; video lines 223-224: aria2c exits; it leaves each
\* segment file missing, unreadable or retrieved, whatever its exit code;
\* the error of a rejected exec carries the output of the process and is
\* the error that the catch block throws again
JobAcceleratorExit ==
    /\ job.pc = "accelerating"
    /\ \E files \in [Names(job.segmentFilenames) -> TempFileStates],
          code \in {0, 1}, output \in AcceleratorOutputs :
        /\ LET j == [job EXCEPT !.temp = files, !.running = FALSE,
                                !.exit = Num(code), !.captured = output] IN
           job' = IF execRejects(code)
                  THEN [Throw(j, "accelerator") EXCEPT !.stderr = output]
                  ELSE [j EXCEPT !.pc = "open"]
    /\ AuthIdle /\ UNCHANGED eval

\* music line 131; video line 227: createWriteStream
JobOpenOutput ==
    /\ job.pc = "open"
    /\ job' = [job EXCEPT !.pc = "concat", !.i = 1, !.output = <<>>]
    /\ AuthIdle /\ UNCHANGED eval

\* the loop leaving at the first segment it cannot read
appendSegmentStoppingAtMissing(j, segmentFile) ==
    IF segmentFile.state = "ok"
    THEN [j EXCEPT !.output = @ \o segmentFile.bytes, !.i = @ + 1]
    ELSE [j EXCEPT !.skipped = @ + 1, !.i = Len(j.segmentFilenames) + 1]

\* what one iteration of the reassembly loop does with one segment file
appendSegment(j, segmentFile) ==
    IF segmentFile.state = "ok"
    THEN [j EXCEPT !.output = @ \o segmentFile.bytes, !.i = @ + 1]
    ELSE [j EXCEPT !.skipped = @ + 1, !.i = @ + 1]

\* music lines 134-142; video lines 229-238
JobAppendSegment ==
    /\ job.pc = "concat"
    /\ job.i <= Len(job.segmentFilenames)
    /\ job' = appendSegment(job, job.temp[job.segmentFilenames[job.i]])
    /\ AuthIdle /\ UNCHANGED eval

\* the output stream emits 'error' (open or write failure) while the loop
\* awaits a segment read: no 'error' listener is attached yet, the event is
\* an uncaught exception and the process exits
JobStreamErrorInLoop ==
    /\ job.pc = "concat"
    /\ job' = [job EXCEPT !.pc = "crashed", !.error = "stream"]
    /\ AuthIdle /\ UNCHANGED eval

\* music lines 143-150; video lines 239-246: end() and the listeners
JobEndStream ==
    /\ job.pc = "concat"
    /\ job.i > Len(job.segmentFilenames)
    /\ job' = [job EXCEPT !.pc = "finishing"]
    /\ AuthIdle /\ UNCHANGED eval

\* music line 153, video line 249: the object that a job returns; the
\* output file is <trackId>_<audioQuality>.flac or <videoId>_<qualityTag>.ts
downloadResult(j) ==
    [success |-> TRUE,
     filePath |-> j.outputBasename]

\* music lines 147-153; video lines 243-249: 'finish' or 'error'
JobFinish ==
    /\ job.pc = "finishing"
    /\ \/ job' = [job EXCEPT !.pc = "cleanup", !.pending = "returned",
                             !.value = downloadResult(job)]
       \/ job' = Throw(job, "stream")
    /\ AuthIdle /\ UNCHANGED eval

\* the removal placed on the success path only
cleanupAppliesOnSuccess(j) == j.tempDirPath # "" /\ j.pending = "returned"

\* the finally block acts only when tempDirPath has been assigned
cleanupApplies(j) == j.tempDirPath # ""

\* a finally block that lets the error of a failed removal out: it takes
\* the place of the pending return or throw
settleCleanupEscalating(j, removed) ==
    IF removed
    THEN [j EXCEPT !.pc = j.pending, !.tempExists = FALSE, !.cleanup = "removed"]
    ELSE [j EXCEPT !.pc = "raised", !.pending = "raised", !.error = "cleanup",
                   !.cleanup = "failed"]

\* music lines 169-180; video lines 265-275: the removal succeeds, or its
\* error is caught and logged; then the pending return or throw of the try
\* block completes
settleCleanup(j, removed) ==
    IF removed
    THEN [j EXCEPT !.pc = j.pending, !.tempExists = FALSE, !.cleanup = "removed"]
    ELSE [j EXCEPT !.pc = j.pending, !.cleanup = "failed"]

\* music lines 167-181; video lines 263-276
JobCleanup ==
    /\ job.pc = "cleanup"
    /\ IF cleanupApplies(job) /\ job.tempExists
       THEN \E removed \in BOOLEAN : job' = settleCleanup(job, removed)
       ELSE job' = [job EXCEPT !.pc = job.pending]
    /\ AuthIdle /\ UNCHANGED eval

JobKinds == {"music", "video"}

InitJob ==
    /\ now = StartTime
    /\ file = AbsentFile
    /\ session = SessionDefaults
    /\ op = "none"
    /\ pc = "idle"
    /\ result = "none"
    /\ fpc = "idle"
    /\ attempt = 0
    /\ endpoint = "none"
    /\ response = NoResponse
    /\ stats = NoStats
    /\ hist = NoHist
    /\ \/ job = NewJob("video", <<>>, NoManifest)
       \/ \E manifest \in JobManifests : job = NewJob("music", <<>>, manifest)
    /\ eval = NoEval

NextJob ==
    \/ JobFetchStreams
    \/ JobSelectStream
    \/ JobNameOutput
    \/ JobResolve
    \/ JobMkdir
    \/ JobStage
    \/ JobAccelerate
    \/ JobAcceleratorExit
    \/ JobOpenOutput
    \/ JobAppendSegment
    \/ JobStreamErrorInLoop
    \/ JobEndStream
    \/ JobFinish
    \/ JobCleanup

SpecJob == InitJob /\ [][NextJob]_vars

Init ==
    /\ now = StartTime
    /\ file \in InitialFiles
    /\ session = SessionDefaults
    /\ op \in {"authenticate", "refresh"}
    /\ pc = "start"
    /\ result = "none"
    /\ fpc = "idle"
    /\ attempt = 0
    /\ endpoint = "none"
    /\ response = NoResponse
    /\ stats = NoStats
    /\ hist = NoHist
    /\ job = IdleJob
    /\ eval = NoEval

Next ==
    \/ AuthStart
    \/ RefreshInvoke
    \/ RefreshStart
    \/ RefreshResponse
    \/ RefreshRaises
    \/ DeviceFlowStart
    \/ DeviceResponse
    \/ PollLoop
    \/ PollResponse
    \/ DeviceFlowCatch
    \/ FetchResponse
    \/ FetchRateLimited
    \/ FetchNetworkFailure

Spec == Init /\ [][Next]_vars

(***************************************************************************)
(* The device flow of establishAuthenticatedSession run to its end: no     *)
(* session file, so that the flow begins at once.  The program is one      *)
(* task whose every await is answered: the timer fires, and a request gets *)
(* a response or fails.                                                    *)
(***************************************************************************)
InitPoll ==
    /\ now = StartTime
    /\ file = AbsentFile
    /\ session = SessionDefaults
    /\ op = "authenticate"
    /\ pc = "start"
    /\ result = "none"
    /\ fpc = "idle"
    /\ attempt = 0
    /\ endpoint = "none"
    /\ response = NoResponse
    /\ stats = NoStats
    /\ hist = NoHist
    /\ job = IdleJob
    /\ eval = NoEval

NextPoll ==
    \/ AuthStart
    \/ DeviceFlowStart
    \/ DeviceResponse
    \/ PollLoop
    \/ PollResponse
    \/ DeviceFlowCatch
    \/ FetchResponse
    \/ FetchRateLimited
    \/ FetchNetworkFailure

SpecPoll == InitPoll /\ [][NextPoll]_vars /\ WF_vars(NextPoll)

(***************************************************************************)
(* The session functions on their own: isAccessTokenCurrentlyValid,        *)
(* persistSession and retrievePersistedSession applied to a session and a  *)
(* session file chosen at the start.  A load after a persist is the next   *)
(* run of the program reading what this run wrote.                         *)
(***************************************************************************)
SessionExpiries ==
    {NullNum, Num(0), Num(StartTime - 1), Num(StartTime), Num(StartTime + 1)}

SessionOf(access, refresh, expiry, device) ==
    [deviceCode |-> IF device THEN "D1" ELSE Null,
     userCode |-> IF device THEN "U1" ELSE Null,
     verificationUrl |-> IF device THEN "link.tidal.com/U1" ELSE Null,
     authCheckTimeoutTimestamp |-> IF device THEN Num(StartTime + 2000) ELSE NullNum,
     authCheckIntervalMs |-> IF device THEN Num(1000) ELSE NullNum,
     userId |-> IF access # Null THEN "u0" ELSE Null,
     countryCode |-> IF access # Null THEN "US" ELSE Null,
     accessToken |-> access,
     refreshToken |-> refresh,
     tokenExpiresAtTimestamp |-> expiry]

SessionInputs ==
    {SessionOf(a, r, e, d) : a \in {Null, "A0"}, r \in {Null, "R0"},
                             e \in SessionExpiries, d \in BOOLEAN}

\* session files: none, unparsable, written by persistSession, an object
\* with one field only, an object holding a device code
SessionFiles ==
    {AbsentFile, CorruptFile, StoredToken(Num(StartTime + 1000), "R9"),
     [kind |-> "json", data |-> [accessToken |-> "A9"]],
     [kind |-> "json", data |-> [accessToken |-> "A9", deviceCode |-> "D9"]]}

SessionIdle ==
    UNCHANGED <<now, op, result, fpc, attempt, endpoint, response, stats, job>>

\* lines 752-754 on the chosen session
SessionIsValid ==
    /\ pc = "ready"
    /\ eval' = [fn |-> "isAccessTokenCurrentlyValid", input |-> session,
                output |-> isAccessTokenCurrentlyValid(session, now)]
    /\ pc' = "checked"
    /\ SessionIdle
    /\ UNCHANGED <<file, session, hist>>

\* lines 789-803 on the chosen session
SessionPersist ==
    /\ pc = "ready"
    /\ \E w \in WriteOutcomes :
        /\ file' = persistSession(session, file, w)
        /\ hist' = [hist EXCEPT !.writes = @ + 1, !.lastWrite = w,
                                !.deviceAtWrite = session.deviceCode # Null]
    /\ eval' = [fn |-> "persistSession", input |-> session, output |-> file]
    /\ pc' = "persisted"
    /\ SessionIdle
    /\ UNCHANGED session

\* lines 805-819 on the session file as it is
SessionLoad ==
    /\ pc \in {"ready", "persisted"}
    /\ session' = retrievePersistedSession(file)
    /\ pc' = "loaded"
    /\ SessionIdle
    /\ UNCHANGED <<file, hist, eval>>

InitSession ==
    /\ now = StartTime
    /\ file \in SessionFiles
    /\ session \in SessionInputs
    /\ op = "none"
    /\ pc = "ready"
    /\ result = "none"
    /\ fpc = "idle"
    /\ attempt = 0
    /\ endpoint = "none"
    /\ response = NoResponse
    /\ stats = NoStats
    /\ hist = NoHist
    /\ job = IdleJob
    /\ eval = NoEval

NextSession ==
    \/ SessionIsValid
    \/ SessionPersist
    \/ SessionLoad

SpecSession == InitSession /\ [][NextSession]_vars

ParseIdle ==
    UNCHANGED <<now, file, session, op, result, fpc, attempt, endpoint,
                response, stats, hist, job>>

\* parseM3U8MasterPlaylist applied to the chosen playlist
ParseMaster ==
    /\ pc = "parse" /\ eval.fn = "parseM3U8MasterPlaylist"
    /\ eval' = [eval EXCEPT !.output = parseM3U8MasterPlaylist(eval.input)]
    /\ pc' = "parsed"
    /\ ParseIdle

\* parseM3U8MediaPlaylist applied to the chosen playlist
ParseMedia ==
    /\ pc = "parse" /\ eval.fn = "parseM3U8MediaPlaylist"
    /\ eval' = [eval EXCEPT !.output = parseM3U8MediaPlaylist(eval.input)]
    /\ pc' = "parsed"
    /\ ParseIdle

\* parseManifestAndExtractSegments applied to the chosen manifest
ParseManifest ==
    /\ pc = "parse" /\ eval.fn = "parseManifestAndExtractSegments"
    /\ eval' = [eval EXCEPT !.output = parseManifestAndExtractSegments(eval.input)]
    /\ pc' = "parsed"
    /\ ParseIdle

InitParse ==
    /\ now = StartTime
    /\ file = AbsentFile
    /\ session = SessionDefaults
    /\ op = "none"
    /\ pc = "parse"
    /\ result = "none"
    /\ fpc = "idle"
    /\ attempt = 0
    /\ endpoint = "none"
    /\ response = NoResponse
    /\ stats = NoStats
    /\ hist = NoHist
    /\ job = IdleJob
    /\ \/ \E m3u8Content \in MasterPlaylists :
            eval = [fn |-> "parseM3U8MasterPlaylist", input |-> m3u8Content,
                    output |-> <<>>]
       \/ \E m3u8Content \in MediaPlaylists :
            eval = [fn |-> "parseM3U8MediaPlaylist", input |-> m3u8Content,
                    output |-> <<>>]
       \/ \E manifestXml \in Manifests :
            eval = [fn |-> "parseManifestAndExtractSegments",
                    input |-> manifestXml, output |-> <<>>]

NextParse ==
    \/ ParseMaster
    \/ ParseMedia
    \/ ParseManifest

SpecParse == InitParse /\ [][NextParse]_vars

(***************************************************************************)
(* Properties of the retrying HTTP client                                  *)
(***************************************************************************)
\* the wait, in milliseconds, that a Retry-After header asks for
HeaderWait(header) ==
    CASE header = "" -> 20000
      [] header = "0" -> 0
      [] header = "5" -> 5000

\* C1 (as stated): a 429 response makes the client wait Retry-After seconds
\* (20 without the header) and reissue the same request, and the wait never
\* consumes a retry attempt: the loop counter counts network failures only,
\* and the client gives up only after the full number of network failures.
C1_RateLimitFreeOfAttempts ==
    /\ stats.wait.cause = "429" => stats.wait.ms = HeaderWait(stats.wait.header)
    /\ fpc = "issue" => attempt = stats.nfail + 1
    /\ fpc = "raised" => stats.nfail = DEFAULT_FETCH_MAX_RETRIES

\* C1 (amended): a 429 response makes the client wait Retry-After seconds
\* (20 without the header); the wait consumes one of the three attempts that
\* rate limits and network failures share: the same request is reissued when
\* an attempt is left, and the client raises when none is.
C1_RateLimitConsumesAttempt ==
    [][stats'.n429 = stats.n429 + 1 =>
        /\ now' = now + HeaderWait(stats'.wait.header)
        /\ endpoint' = endpoint
        /\ attempt' = attempt + 1
        /\ attempt = stats.n429 + stats.nfail + 1
        /\ fpc' = IF attempt < 3 THEN "issue" ELSE "raised"]_vars

\* two rate limits were waited for, the second for 5 seconds, and the
\* request is issued a third time
C1_Witness ==
    /\ fpc = "issue"
    /\ stats.n429 = 2
    /\ stats.wait.header = "5"

\* C11 (as stated): after a network-level failure of attempt k < 3 the client
\* waits 2000*k ms and retries, and the error carrying the last failure is
\* raised only after 3 network-level failures.
C11_RaisedOnlyAfterMaxNetworkFailures ==
    /\ stats.wait.cause = "network" =>
            (stats.wait.attempt < 3 /\ stats.wait.ms = 2000 * stats.wait.attempt)
    /\ (fpc = "raised" /\ stats.error = "failed") => stats.nfail = 3

\* C11 (amended): a network-level failure of attempt k, where k counts every
\* request of the call (those answered 429 included), is followed for k < 3
\* by a wait of 2000*k ms and another request, and for k = 3 by the error
\* carrying that failure, without a wait; a request that gets a response
\* other than 429 after earlier failures returns that response.
C11_NetworkFailureBackoff ==
    [][/\ stats'.nfail = stats.nfail + 1 =>
            /\ attempt = stats.n429 + stats.nfail + 1
            /\ stats'.reqs = stats.reqs + 1
            /\ endpoint' = endpoint
            /\ IF attempt < 3
               THEN /\ now' = now + 2000 * attempt
                    /\ attempt' = attempt + 1
                    /\ fpc' = "issue"
                    /\ stats'.error = "none"
               ELSE /\ now' = now
                    /\ fpc' = "raised"
                    /\ stats'.error = "failed"
                    /\ response' = NoResponse
       /\ (fpc = "issue" /\ fpc' = "returned") =>
            /\ response' \in Responses(endpoint)
            /\ stats'.nfail = stats.nfail
            /\ stats'.error = "none"]_vars

\* two network failures, the second followed by a wait of 4000 ms, and the
\* third request returned a response
C11_Witness ==
    /\ fpc = "returned"
    /\ stats.nfail = 2 /\ stats.n429 = 0 /\ stats.reqs = 3
    /\ stats.wait.cause = "network" /\ stats.wait.attempt = 2
    /\ stats.wait.ms = 4000
    /\ response.status = 200

\* C12: a response whose status is not 429 (4xx and 5xx included) is handed
\* to the caller by the request that received it: that request is followed
\* by no wait, no further attempt and no error, and the call issues no
\* request after it.
C12_OtherStatusesReturnedAtOnce ==
    [][/\ (fpc = "issue" /\ response' # response) =>
            /\ response'.status \in (200..599) \ {429}
            /\ fpc' = "returned"
            /\ stats'.reqs = stats.reqs + 1
            /\ stats'.n429 = stats.n429 /\ stats'.nfail = stats.nfail
            /\ stats'.error = "none"
            /\ attempt' = attempt
            /\ now' = now
       /\ fpc = "returned" =>
            \/ stats' = stats /\ response' = response
            \/ stats' = NoStats /\ fpc' = "issue"
                    /\ hist'.calls # hist.calls]_vars

\* a 500 answer to the only request of the device-authorization call is
\* with the caller
C12_Witness ==
    /\ pc = "device_fetch" /\ fpc = "returned"
    /\ response.status = 500
    /\ stats.reqs = 1 /\ attempt = 1

(***************************************************************************)
(* Properties of establishAuthenticatedSession                             *)
(***************************************************************************)
DeviceFieldsNull(s) ==
    /\ s.deviceCode = Null
    /\ s.userCode = Null
    /\ s.verificationUrl = Null
    /\ s.authCheckTimeoutTimestamp = NullNum
    /\ s.authCheckIntervalMs = NullNum

TokenFieldsNull(s) ==
    /\ s.accessToken = Null
    /\ s.refreshToken = Null
    /\ s.tokenExpiresAtTimestamp = NullNum
    /\ s.userId = Null
    /\ s.countryCode = Null

TokenFieldsOf(s) ==
    <<s.userId, s.countryCode, s.accessToken, s.refreshToken,
      s.tokenExpiresAtTimestamp>>

\* C2: in authenticate, when the loaded access token is not valid and a
\* refresh token exists, a refresh that fails (rejected by the token
\* endpoint, or failing at transport level after its retries) is followed by
\* the device-code request: the attempt does not end without it.
C2_FailedRefreshFallsBackToDeviceFlow ==
    (op = "authenticate" /\ pc = "done" /\ hist.refreshRet \in {"false", "raised"})
        => hist.calls["device_authorization"] >= 1

\* C3: when the session loaded by authenticate holds an access token whose
\* expiry is strictly in the future, authenticate returns that session at
\* once: no HTTP request, no session field modified, no write of the file.
C3_ValidTokenReturnsImmediately ==
    (/\ op = "authenticate" /\ pc # "start"
     /\ hist.loaded.accessToken # Null
     /\ hist.loaded.tokenExpiresAtTimestamp # NullNum
     /\ hist.loaded.tokenExpiresAtTimestamp[1] > StartTime)
        => /\ pc = "done" /\ result = "session"
           /\ session = hist.loaded
           /\ \A e \in Endpoints : ~hist.sent[e] /\ hist.calls[e] = 0
           /\ hist.writes = 0
           /\ file.kind = "json" /\ TokenFieldsOf(file.data) = TokenFieldsOf(hist.loaded)
           /\ now = StartTime

C3_Witness ==
    /\ op = "authenticate" /\ pc = "done" /\ result = "session"
    /\ session.accessToken = "A0"
    /\ session.tokenExpiresAtTimestamp = Num(StartTime + 1000)

\* C4: once authenticate has entered the device flow, it ends either with a
\* session holding an access token or with null; a rejected or raising
\* device-code request, a non-pending poll error, a timeout, and an error
\* raised while polling all end it with null, never with an exception.
C4_ExhaustedPathsReturnNull ==
    (op = "authenticate" /\ pc = "done" /\ hist.calls["device_authorization"] >= 1)
        => /\ result \in {"null", "session"}
           /\ result = "session" <=> session.accessToken # Null
           /\ (hist.deviceRet = "raised" \/ hist.pollRet \in {"false", "raised"})
                => result = "null"

\* the refresh was rejected, the device code was granted and the poll timed
\* out after a pending answer
C4_Witness ==
    /\ op = "authenticate" /\ pc = "done" /\ result = "null"
    /\ hist.refreshRet = "false"
    /\ hist.pollOutcome = "timeout"
    /\ hist.calls["token_poll"] >= 1

\* C7: when a device flow started by requestDeviceCode has ended (token,
\* non-pending error, timeout, or an error raised by the transport layer
\* while polling) every device-flow field of the session is null, and when
\* the operation has returned, device-flow fields and token fields are not
\* both populated.
C7_DeviceFieldsClearedAtFlowEnd ==
    /\ (hist.flow = "ended"
            /\ hist.pollOutcome \in {"token", "rejected", "timeout", "raised"})
        => DeviceFieldsNull(session)
    /\ pc = "done" => (DeviceFieldsNull(session) \/ TokenFieldsNull(session))

(***************************************************************************)
(* Properties of pollForDeviceAccessToken and attemptTokenRefresh          *)
(***************************************************************************)
\* C8: an error response to a poll whose body has status 400 and sub_status
\* 1002 does not end the poll: control goes back to the loop with the
\* session untouched and nothing returned; any other error response ends the
\* poll at once with failure, the device-flow fields cleared and no token
\* stored.
C8_PendingIsNotFatal ==
    [][(pc = "poll_fetch" /\ fpc = "returned"
            /\ ~(response.status >= 200 /\ response.status <= 299)) =>
        IF response.parsable /\ response.err.status = <<400>>
                /\ response.err.sub_status = <<1002>>
        THEN /\ pc' = "poll"
             /\ result' = "none"
             /\ session' = session
             /\ file' = file
             /\ hist'.pollRet = "none"
        ELSE /\ pc' = "done"
             /\ result' = "null"
             /\ hist'.pollRet = "false"
             /\ DeviceFieldsNull(session')
             /\ TokenFieldsNull(session')
             /\ file' = file
             /\ hist'.calls = hist.calls]_vars

\* after a pending answer the token request is being issued again
C8_Witness ==
    /\ pc = "poll_fetch" /\ fpc = "issue"
    /\ hist.pollOutcome = "pending"
    /\ hist.calls["token_poll"] = 2

\* C9: a successful token response to a poll stores the access token, the
\* expiry now + expires_in*1000, and the refresh token and user fields when
\* present; the session is persisted, the device-flow fields are cleared,
\* the poll returns success and no further token request is issued.
C9_PollSuccessStoresToken ==
    [][(pc = "poll_fetch" /\ fpc = "returned" /\ response.parsable
            /\ response.status >= 200 /\ response.status <= 299) =>
        LET t == response.token IN
        /\ session'.accessToken = t.access_token
        /\ session'.tokenExpiresAtTimestamp = <<now + t.expires_in * 1000>>
        /\ session'.refreshToken =
                IF t.refresh_token # Null THEN t.refresh_token ELSE session.refreshToken
        /\ session'.userId = IF t.user.present THEN t.user.userId ELSE session.userId
        /\ session'.countryCode =
                IF t.user.present THEN t.user.countryCode ELSE session.countryCode
        /\ DeviceFieldsNull(session')
        /\ hist'.writes = hist.writes + 1
        /\ hist'.lastWrite = "ok" =>
                (file'.kind = "json" /\ TokenFieldsOf(file'.data) = TokenFieldsOf(session'))
        /\ hist'.pollRet = "true"
        /\ pc' = "done" /\ result' = "session" /\ fpc' = "idle"
        /\ hist'.calls = hist.calls]_vars

C9_Witness ==
    /\ pc = "done" /\ result = "session"
    /\ hist.pollOutcome = "token" /\ hist.lastWrite = "ok"
    /\ session.accessToken = "A1" /\ session.refreshToken = "R1"
    /\ session.userId = "u1"
    /\ file.kind = "json" /\ file.data.accessToken = "A1"

\* C10: attemptTokenRefresh on a successful response updates the tokens,
\* persists the session and returns success; on a rejected response it nulls
\* every token field, persists the cleared record and returns failure;
\* without a refresh token it returns failure and issues no request.
C10_RefreshOutcomes ==
    [][/\ (pc = "refresh_fetch" /\ fpc = "returned" /\ response.parsable
                /\ response.status >= 200 /\ response.status <= 299) =>
            /\ session'.accessToken = response.token.access_token
            /\ session'.tokenExpiresAtTimestamp =
                    <<now + response.token.expires_in * 1000>>
            /\ session'.refreshToken =
                    IF response.token.refresh_token # Null
                    THEN response.token.refresh_token ELSE session.refreshToken
            /\ hist'.writes = hist.writes + 1
            /\ hist'.lastWrite = "ok" =>
                    (file'.kind = "json"
                        /\ TokenFieldsOf(file'.data) = TokenFieldsOf(session'))
            /\ hist'.refreshRet = "true"
       /\ (pc = "refresh_fetch" /\ fpc = "returned"
                /\ ~(response.status >= 200 /\ response.status <= 299)) =>
            /\ TokenFieldsNull(session')
            /\ hist'.writes = hist.writes + 1
            /\ hist'.lastWrite = "ok" =>
                    (file'.kind = "json" /\ TokenFieldsNull(file'.data))
            /\ hist'.refreshRet = "false"
       /\ (pc = "refresh" /\ session.refreshToken = Null) =>
            /\ hist'.refreshRet = "false"
            /\ hist'.sent = hist.sent /\ hist'.calls = hist.calls
            /\ fpc' = "idle"
            /\ session' = session /\ file' = file]_vars

\* the refresh of a stored refresh token was rejected and the cleared record
\* is in the file
C10_Witness ==
    /\ op = "refresh" /\ pc = "done" /\ result = "false"
    /\ hist.sent["token_refresh"]
    /\ hist.loaded.refreshToken = "R0"
    /\ TokenFieldsNull(session)
    /\ file.kind = "json" /\ TokenFieldsNull(file.data)

(***************************************************************************)
(* Properties of the session and its file                                  *)
(***************************************************************************)
\* C13: isAccessTokenCurrentlyValid is true exactly when an access token is
\* present and the current time is strictly before the expiry timestamp;
\* it is false without a token, without an expiry, when the expiry equals
\* now and when it precedes now.
C13_ValidIffTokenAndBeforeExpiry ==
    eval.fn = "isAccessTokenCurrentlyValid" =>
        (eval.output <=>
            /\ eval.input.accessToken # Null
            /\ eval.input.tokenExpiresAtTimestamp # NullNum
            /\ now < eval.input.tokenExpiresAtTimestamp[1])

\* a token whose expiry equals now was found not valid
C13_Witness ==
    /\ eval.fn = "isAccessTokenCurrentlyValid"
    /\ eval.input.accessToken = "A0"
    /\ eval.input.tokenExpiresAtTimestamp = <<now>>
    /\ eval.output = FALSE

\* C14: whatever session operations have run, a session file that holds
\* JSON holds the five token-related fields (user id, country code, access
\* token, refresh token, token expiry) and no device-flow field, also when
\* the last write was made from a session whose device-flow fields were
\* populated.
C14_FileHoldsTokenFieldsOnly ==
    file.kind = "json" =>
        /\ DOMAIN file.data = {"userId", "countryCode", "accessToken",
                               "refreshToken", "tokenExpiresAtTimestamp"}
        /\ \A f \in {"deviceCode", "userCode", "verificationUrl",
                      "authCheckTimeoutTimestamp", "authCheckIntervalMs"} :
                f \notin DOMAIN file.data

\* the poll obtained a token and wrote the file from the session that
\* still held the device code
C14_Witness ==
    /\ pc = "done" /\ hist.pollOutcome = "token"
    /\ hist.lastWrite = "ok" /\ hist.deviceAtWrite
    /\ hist.writes = 2
    /\ file.kind = "json" /\ file.data.accessToken = "A1"

\* C15: a session that was persisted (the write succeeded) and is then
\* loaded has the access token, refresh token, token expiry, user id and
\* country code of the persisted session, and every device-flow field null.
C15_PersistThenLoadRoundTrip ==
    (pc = "loaded" /\ eval.fn = "persistSession" /\ hist.lastWrite = "ok") =>
        /\ session.accessToken = eval.input.accessToken
        /\ session.refreshToken = eval.input.refreshToken
        /\ session.tokenExpiresAtTimestamp = eval.input.tokenExpiresAtTimestamp
        /\ session.userId = eval.input.userId
        /\ session.countryCode = eval.input.countryCode
        /\ DeviceFieldsNull(session)

\* a session with tokens and a device code was persisted over a file that
\* held a device code, and loaded
C15_Witness ==
    /\ pc = "loaded" /\ eval.fn = "persistSession" /\ hist.lastWrite = "ok"
    /\ eval.input.deviceCode = "D1"
    /\ eval.input.refreshToken = "R0"
    /\ eval.output.kind = "json" /\ eval.output.data.accessToken = "A9"
    /\ session.accessToken = "A0" /\ session.refreshToken = "R0"
    /\ session.tokenExpiresAtTimestamp = <<StartTime + 1>>
    /\ session.deviceCode = Null

\* C16: loading never raises: it yields a session (a record of the ten
\* session fields), and when the file is absent or unparsable every field
\* of that session is null.
C16_LoadNeverRaises ==
    [][pc' = "loaded" =>
        /\ DOMAIN session' = DOMAIN SessionDefaults
        /\ file.kind \in {"absent", "corrupt"} =>
                (DeviceFieldsNull(session') /\ TokenFieldsNull(session'))]_vars

\* an unparsable file, left by a write that failed midway, was loaded into
\* an empty session
C16_Witness ==
    /\ pc = "loaded" /\ file.kind = "corrupt" /\ hist.lastWrite = "truncated"
    /\ eval.fn = "persistSession" /\ eval.input.accessToken = "A0"
    /\ session.accessToken = Null /\ session.refreshToken = Null
    /\ session.deviceCode = Null

(***************************************************************************)
(* Properties of the manifest parsers                                      *)
(***************************************************************************)
\* the positions of the lines that close a variant: an http(s) line whose
\* nearest earlier stream-inf line has no http(s) line after it
IsUrlAt(lines, j) == lines[j].head \in {"http://", "https://"}

IsInfAt(lines, i) == lines[i].head = "#EXT-X-STREAM-INF:"

InfOf(lines, j) ==
    {i \in 1..(j - 1) :
        /\ IsInfAt(lines, i)
        /\ \A k \in (i + 1)..(j - 1) : ~IsInfAt(lines, k) /\ ~IsUrlAt(lines, k)}

VariantPositions(lines) ==
    {j \in 1..Len(lines) : IsUrlAt(lines, j) /\ InfOf(lines, j) # {}}

BandwidthAt(lines, j) ==
    LET i == CHOOSE i \in InfOf(lines, j) : TRUE IN
    CASE lines[i].bandwidth = "" -> 0
      [] lines[i].bandwidth = "500000" -> 500000
      [] lines[i].bandwidth = "900000" -> 900000
      [] lines[i].bandwidth = "1500000" -> 1500000

\* C17: the variants returned are in descending order of bandwidth; they
\* are the variants of the playlist (a stream-inf line and the next URL
\* line), each once; variants of equal bandwidth are in playlist order.
C17_SortedStablePermutation ==
    (pc = "parsed" /\ eval.fn = "parseM3U8MasterPlaylist") =>
        LET lines == eval.input
            out == eval.output
            V == VariantPositions(lines)
        IN  /\ Len(out) = Cardinality(V)
            /\ \A a, b \in 1..Len(out) :
                    a < b => out[a].bandwidth >= out[b].bandwidth
            /\ \E p \in [1..Len(out) -> V] :
                    /\ \A a, b \in 1..Len(out) : a # b => p[a] # p[b]
                    /\ \A a \in 1..Len(out) :
                            /\ out[a].bandwidth = BandwidthAt(lines, p[a])
                            /\ out[a].url = lines[p[a]].head \o lines[p[a]].host
                                    \o lines[p[a]].dir \o lines[p[a]].base
                                    \o lines[p[a]].ext \o lines[p[a]].query
                    /\ \A a, b \in 1..Len(out) :
                            (a < b /\ out[a].bandwidth = out[b].bandwidth)
                                => p[a] < p[b]

\* bandwidths 500000, 1500000, 900000 came out as 1500000, 900000, 500000
C17_Witness ==
    /\ pc = "parsed" /\ eval.fn = "parseM3U8MasterPlaylist"
    /\ Len(eval.input) = 6
    /\ eval.input[1].bandwidth = "500000"
    /\ eval.input[3].bandwidth = "1500000"
    /\ eval.input[5].bandwidth = "900000"
    /\ Len(eval.output) = 3
    /\ eval.output[1].bandwidth = 1500000
    /\ eval.output[2].bandwidth = 900000
    /\ eval.output[3].bandwidth = 500000

\* the positions of the lines of a media playlist that are not blank and
\* are not comments
SegmentPositions(lines) ==
    {j \in 1..Len(lines) :
        /\ lines[j].head \o lines[j].host \o lines[j].dir \o lines[j].base
                \o lines[j].ext \o lines[j].query # ""
        /\ lines[j].head \notin {"#", "#EXTM3U", "#EXTINF:", "#EXT-X-STREAM-INF:"}}

\* the k-th smallest element of a set of positions
Nth(positions, k) ==
    CHOOSE j \in positions : Cardinality({i \in positions : i <= j}) = k

\* C19: the segment URLs are the lines (without the white space around
\* them) that are not blank and do not start with '#', each once and in
\* file order; the filename list has one name per URL, at the same index:
\* the last path component of that URL or segment_<index>.ts.
C19_UrlsAreNonCommentLines ==
    (pc = "parsed" /\ eval.fn = "parseM3U8MediaPlaylist") =>
        LET lines == eval.input
            out == eval.output
            S == SegmentPositions(lines)
        IN  /\ Len(out.urls) = Cardinality(S)
            /\ Len(out.filenames) = Len(out.urls)
            /\ \A k \in 1..Len(out.urls) :
                    LET line == lines[Nth(S, k)] IN
                    /\ out.urls[k] = line.head \o line.host \o line.dir
                            \o line.base \o line.ext \o line.query
                    /\ out.filenames[k] \in
                            {line.base \o line.ext,
                             "segment_" \o ToString(k) \o ".ts"}
                    /\ out.filenames[k] # ""

\* header, two segments each after its duration comment, and a blank line
C19_Witness ==
    /\ pc = "parsed" /\ eval.fn = "parseM3U8MediaPlaylist"
    /\ Len(eval.input) = 5
    /\ eval.input[1].head = "#EXTM3U"
    /\ eval.input[2].head = "#EXTINF:"
    /\ eval.input[4].ws = "  "
    /\ eval.output.urls = <<"https://cdn/v/1.ts", "http://cdn/v/2.ts?t=1">>
    /\ eval.output.filenames = <<"1.ts", "2.ts">>

\* the number an r attribute stands for
RepeatOf(r) ==
    CASE r = "" -> 0 [] r = "0" -> 0 [] r = "1" -> 1 [] r = "2" -> 2
      [] r = "-1" -> -1

RECURSIVE SumOfRuns(_)
\* the sum of 1 + repeatCount over the timeline entries
SumOfRuns(slices) ==
    IF slices = <<>> THEN 0
    ELSE 1 + RepeatOf(Head(slices).r) + SumOfRuns(Tail(slices))

\* C18: for a manifest that is accepted, the first URL is the
\* initialization URL; the timeline entries give 1 + repeatCount media URLs
\* each (repeatCount 0 without r), 1 + the sum of (1 + repeatCount) URLs in
\* all; the k-th media URL is the template with startNumber + k - 1 in
\* place of $Number$, across the entries; the filename list has one name
\* per URL at the same index, the name of that URL's file.
C18_InitThenNumberedRuns ==
    (pc = "parsed" /\ eval.fn = "parseManifestAndExtractSegments"
            /\ eval.output.error = "none") =>
        LET m == eval.input
            out == eval.output
            start == CASE m.startNumber = "0" -> 0 [] m.startNumber = "1" -> 1
        IN  /\ Len(out.segmentUrls) = 1 + SumOfRuns(m.timeline.S)
            /\ Len(out.segmentBasenames) = Len(out.segmentUrls)
            /\ out.segmentUrls[1] = "https://cdn/t/0.mp4?token=x"
            /\ out.segmentBasenames[1] = "0.mp4"
            /\ m.media.number =>
                    \A k \in 1..(Len(out.segmentUrls) - 1) :
                        /\ out.segmentUrls[k + 1] =
                                m.media.dir \o m.media.base
                                    \o ToString(start + k - 1)
                                    \o m.media.ext \o m.media.query
                        /\ out.segmentBasenames[k + 1] =
                                m.media.base \o ToString(start + k - 1)
                                    \o m.media.ext

\* startNumber 1 and one timeline entry with r = 2: the initialization URL
\* and segments 1, 2, 3
C18_Witness ==
    /\ pc = "parsed" /\ eval.fn = "parseManifestAndExtractSegments"
    /\ eval.input.startNumber = "1"
    /\ eval.input.timeline.S = <<[d |-> "1920", r |-> "2"]>>
    /\ eval.output.segmentBasenames = <<"0.mp4", "1.mp4", "2.mp4", "3.mp4">>
    /\ eval.output.segmentUrls[4] = "https://cdn/t/3.mp4?token=x"

(***************************************************************************)
(* Properties of the download jobs                                         *)
(***************************************************************************)
RECURSIVE ConcatReadable(_, _)
\* the bytes of the readable files among names, in the order of names
ConcatReadable(names, files) ==
    IF names = <<>> THEN <<>>
    ELSE (IF files[Head(names)].state = "ok" THEN files[Head(names)].bytes ELSE <<>>)
            \o ConcatReadable(Tail(names), files)

Unreadable(names, files) ==
    Cardinality({k \in 1..Len(names) : files[names[k]].state # "ok"})

\* C5: reassembly writes the bytes of the segment files in manifest order
\* and skips every missing or unreadable one without aborting: when the loop
\* is over the output is the concatenation of the remaining segments in
\* manifest order, and the job that gets its 'finish' reports success.
C5_ReassemblyInManifestOrder ==
    /\ job.pc \in {"finishing", "returned"} =>
            /\ job.output = ConcatReadable(job.segmentFilenames, job.temp)
            /\ job.skipped = Unreadable(job.segmentFilenames, job.temp)
    /\ (job.pc = "cleanup" /\ job.accelerated = 1 /\ job.error # "accelerator") =>
            job.output = ConcatReadable(job.segmentFilenames, job.temp)
    /\ job.pc = "returned" => (job.error = "none" /\ job.pending = "returned")
    /\ job.pc = "raised" =>
            job.error \in {"request", "manifest", "mkdir", "stage", "accelerator", "stream"}

\* three segments, the middle one missing, the other two written in order
C5_Witness ==
    /\ job.pc = "returned"
    /\ job.segmentFilenames = <<"0.mp4", "1.mp4", "2.mp4">>
    /\ job.temp["0.mp4"].bytes = <<8, 9>>
    /\ job.temp["1.mp4"].state = "missing"
    /\ job.temp["2.mp4"].bytes = <<7>>
    /\ job.output = <<8, 9, 7>>

\* C20: a music job whose manifest lacks the Representation element, the
\* SegmentTemplate element, the initialization, media or startNumber
\* attribute, or the segment timeline (missing or empty) ends its try block
\* by an error as soon as the manifest is resolved: no filename is
\* resolved, no temp directory is named or created, and the accelerator is
\* never started.
C20_DefectiveManifestFailsEarly ==
    (/\ job.kind = "music" /\ job.pc \notin {"idle", "resolve"}
     /\ \/ ~job.manifest.representation
        \/ ~job.manifest.segmentTemplate
        \/ job.manifest.initialization.base = ""
        \/ job.manifest.media.ext = ""
        \/ job.manifest.startNumber = ""
        \/ ~job.manifest.timeline.present
        \/ Len(job.manifest.timeline.S) = 0)
        => /\ job.pc \in {"cleanup", "raised"}
           /\ job.pending = "raised"
           /\ job.error \in {"request", "manifest"}
           /\ job.segmentFilenames = <<>>
           /\ job.tempDirPath = ""
           /\ ~job.created /\ ~job.tempExists
           /\ job.accelerated = 0

\* a manifest with an empty segment timeline was rejected and the job has
\* raised without a temp directory
C20_Witness ==
    /\ job.kind = "music" /\ job.pc = "raised" /\ job.error = "manifest"
    /\ job.manifest.xml = "ok" /\ job.manifest.representation
    /\ job.manifest.timeline.present /\ job.manifest.timeline.S = <<>>
    /\ ~job.created /\ job.cleanup = "none" /\ job.accelerated = 0

\* C6: an invocation that created its temp directory and has returned or
\* raised has left no temp directory behind, whichever step failed, unless
\* the removal itself failed.
C6_TempDirectoryRemoved ==
    (job.pc \in {"returned", "raised"} /\ job.created /\ job.cleanup # "failed")
        => ~job.tempExists

\* the accelerator failed after the directory was created
C6_Witness ==
    /\ job.pc = "raised" /\ job.error = "accelerator"
    /\ job.created /\ job.cleanup = "removed" /\ ~job.tempExists

\* C21: fetchAvailableVideoStreams never returns an empty list (a video
\* job gets past it only with at least one variant, and the master playlist
\* it raised on has no URL line that follows a stream description), and a
\* video job whose media playlist yields no segment raises before it
\* creates the temp directory or starts the accelerator.
C21_EmptyListsRaise ==
    /\ (job.kind = "video" /\ job.pc \notin {"idle", "streams", "nostreams"})
            => job.variants > 0
    /\ (job.pc = "nostreams" /\ job.error = "streams")
            => VariantPositions(job.master) = {}
    /\ (/\ job.kind = "video"
        /\ job.pc \notin {"idle", "streams", "nostreams", "select", "aborted",
                           "name", "resolve"}
        /\ SegmentPositions(job.playlist) = {})
            => /\ job.pc \in {"cleanup", "raised"}
               /\ job.pending = "raised"
               /\ job.error \in {"request", "manifest"}
               /\ job.segmentUrls = <<>>
               /\ ~job.created /\ ~job.tempExists
               /\ job.accelerated = 0

\* a media playlist of a comment and a blank line made the video job raise
\* with no temp directory
C21_Witness ==
    /\ job.kind = "video" /\ job.pc = "raised" /\ job.error = "manifest"
    /\ job.variants = 1
    /\ Len(job.playlist) = 2 /\ job.playlist[1].head = "#EXTINF:"
    /\ job.playlist[2] = NoLine
    /\ ~job.created /\ job.cleanup = "none" /\ job.accelerated = 0

\* C22: once the accelerator has exited with a code other than 0 the job
\* is on its way to raise: the error is the accelerator's and carries the
\* output the process wrote, the output file is never opened, no success is
\* pending or returned, and the job that has raised went through the
\* removal of its temp directory.
C22_AcceleratorFailureFailsJob ==
    (job.exit # NullNum /\ job.exit # Num(0))
        => /\ job.pc \in {"cleanup", "raised"}
           /\ job.pending = "raised"
           /\ job.error = "accelerator"
           /\ job.stderr = job.captured
           /\ job.i = 0 /\ job.output = <<>>
           /\ job.pc = "raised" => job.cleanup \in {"removed", "failed"}

\* a video job whose accelerator exited with code 1 has raised with the
\* captured output and its temp directory is removed
C22_Witness ==
    /\ job.kind = "video" /\ job.pc = "raised" /\ job.exit = Num(1)
    /\ job.error = "accelerator" /\ job.stderr = "errors occurred"
    /\ job.created /\ job.cleanup = "removed" /\ ~job.tempExists

\* C23: the steps of a job are ordered: while the accelerator runs the
\* manifest is resolved and the job waits for the exit with the output file
\* unopened and no segment read; the output file is opened and segments are
\* read only after the accelerator has exited with code 0, and nothing is
\* resolved again after the accelerator was started.
C23_StepsStrictlyOrdered ==
    /\ job.accelerated > 0 => job.segmentUrls # <<>>
    /\ job.running =>
            /\ job.pc = "accelerating"
            /\ job.i = 0 /\ job.output = <<>>
    /\ job.pc \in {"open", "concat", "finishing", "returned"} =>
            /\ ~job.running
            /\ job.exit = Num(0)
    /\ job.i > 0 => (~job.running /\ job.exit = Num(0))
    /\ job.pc \in {"streams", "select", "aborted", "name", "resolve", "mkdir",
                  "stage", "accelerate"} =>
            (job.accelerated = 0 /\ job.exit = NullNum /\ job.i = 0)

\* the second segment is being read after the accelerator's exit
C23_Witness ==
    /\ job.pc = "concat" /\ job.i = 2
    /\ job.accelerated = 1 /\ ~job.running /\ job.exit = Num(0)
    /\ Len(job.segmentUrls) = 3

\* C24 (as stated): when the output stream fails, at whatever moment of
\* the reassembly, the job ends by an error delivered to the caller: it is
\* raising or has raised, no success is pending, and the job that has
\* ended went through the removal of its temp directory.
C24_StreamFailureRaises ==
    job.error = "stream"
        => /\ job.pc \in {"cleanup", "raised"}
           /\ job.pending = "raised"
           /\ job.pc = "raised" => job.cleanup \in {"removed", "failed"}

\* C25: a job starts the accelerator at most once; when it has, the
\* accelerator was directed at the job's temp directory and at the input
\* file in it, and the lines of the input file are the resolved segment
\* URLs, each once and in manifest order, each followed for a video job by
\* the line of the user-agent header.
C25_OneInputFileOneInvocation ==
    /\ job.accelerated <= 1
    /\ job.accelerated = 1 =>
        /\ job.tempDirPath # "" /\ job.created
        /\ job.command.d = job.tempDirPath
        /\ job.command.i = job.tempDirPath \o "/segment_urls.txt"
        /\ job.kind = "music" =>
                /\ Len(job.staged) = Len(job.segmentUrls)
                /\ \A k \in 1..Len(job.segmentUrls) : job.staged[k] = job.segmentUrls[k]
        /\ job.kind = "video" =>
                /\ Len(job.staged) = 2 * Len(job.segmentUrls)
                /\ \A k \in 1..Len(job.segmentUrls) :
                        /\ job.staged[2 * k - 1] = job.segmentUrls[k]
                        /\ job.staged[2 * k] =
                                " header=User-Agent: " \o DEFAULT_USER_AGENT
        /\ job.kind = "video" =>
                /\ Len(job.segmentUrls) = Cardinality(SegmentPositions(job.playlist))
                /\ \A k \in 1..Len(job.segmentUrls) :
                        job.segmentUrls[k] =
                            LineText(trim(job.playlist[Nth(SegmentPositions(job.playlist), k)]))

\* a video job of two segments has run the accelerator on four lines
C25_Witness ==
    /\ job.kind = "video" /\ job.accelerated = 1 /\ job.exit = Num(0)
    /\ Len(job.staged) = 4
    /\ job.staged[1] = "https://cdn/v/1.ts"
    /\ job.staged[3] = "http://cdn/v/2.ts?t=1"
    /\ job.command.d = "temp_tidal_video_Song"

\* C26 (as stated): the result of a job that has returned has the number
\* of segments appended and the number expected, so a job that skipped a
\* segment is told apart from a complete one by its result.
C26_ResultExposesSegmentCounts ==
    job.pc = "returned"
        => /\ job.value.success
           /\ {"appended", "expected"} \subseteq DOMAIN job.value
           /\ job.value.expected = Len(job.segmentFilenames)
           /\ job.value.appended = Len(job.segmentFilenames) - job.skipped

(***************************************************************************)
(* Properties of the device flow                                           *)
(***************************************************************************)
DeviceFieldsOf(s) ==
    <<s.deviceCode, s.userCode, s.verificationUrl,
      s.authCheckTimeoutTimestamp, s.authCheckIntervalMs>>

\* C27: when requestDeviceCode ends, on a 2xx response with a readable body
\* the session holds the device code, the user code and the verification
\* URL of the response (the complete one when there is one), the flow
\* expiry is the time of the step plus 1000 times expiresIn and the poll
\* interval is 1000 times interval; on every other response, and when the
\* request raised, requestDeviceCode raises and the device-flow fields are
\* what they were.
C27_DeviceCodeStored ==
    [][(pc = "device_fetch" /\ pc' # "device_fetch") =>
        IF fpc = "returned" /\ response.status = 200 /\ response.parsable
        THEN /\ hist'.deviceRet = "returned"
             /\ session'.deviceCode = response.device.deviceCode
             /\ session'.userCode = response.device.userCode
             /\ session'.verificationUrl \in
                    {response.device.verificationUriComplete,
                     response.device.verificationUri} \ {Null}
             /\ response.device.verificationUriComplete # Null =>
                    session'.verificationUrl = response.device.verificationUriComplete
             /\ session'.authCheckTimeoutTimestamp =
                    Num(now' + 1000 * response.device.expiresIn)
             /\ session'.authCheckIntervalMs = Num(1000 * response.device.interval)
        ELSE /\ hist'.deviceRet = "raised"
             /\ DeviceFieldsOf(session') = DeviceFieldsOf(session)
      ]_vars

\* the device code of a response with expiresIn 3 and interval 2 is stored
\* and the poll has not begun
C27_Witness ==
    /\ pc = "poll" /\ hist.deviceRet = "returned" /\ hist.pollOutcome = "none"
    /\ session.deviceCode = "D1" /\ session.userCode = "U1"
    /\ session.verificationUrl = "link.tidal.com/U1"
    /\ session.authCheckTimeoutTimestamp = Num(now + 3000)
    /\ session.authCheckIntervalMs = Num(2000)
    /\ now > StartTime

\* C28 (as stated): when authenticate, the poll or refresh has returned and
\* no write to the session file has failed, the token fields that the file
\* holds (those that loading it gives) are the token fields of the session
\* in memory.
C28_FileMatchesMemoryOnReturn ==
    (pc = "done" /\ hist.lastWrite \in {"none", "ok"})
        => TokenFieldsOf(retrievePersistedSession(file)) = TokenFieldsOf(session)

\* C29 (as stated): every token request of the poll is sent at a time
\* strictly before the flow expiry.
C29_NoPollRequestAtOrAfterExpiry ==
    [][(pc = "poll_fetch" /\ fpc = "issue" /\ stats'.reqs = stats.reqs + 1)
            => now < session.authCheckTimeoutTimestamp[1]]_vars

\* C30: the poll never goes on forever.  A loop test made when the clock
\* has reached the flow expiry ends the poll by the timeout, with failure,
\* and sends no request; and a device flow that has started comes to its
\* end: a flow that ends with no token, no rejection, no unreadable body
\* and no failed request (every poll was answered authorization-pending)
\* ends by the timeout.
C30_PendingPollTimesOut ==
    /\ [][(pc = "poll" /\ pc' # "poll")
            => IF now >= session.authCheckTimeoutTimestamp[1]
               THEN /\ pc' = "done" /\ result' = "null"
                    /\ hist'.pollOutcome = "timeout" /\ hist'.pollRet = "false"
                    /\ hist'.calls = hist.calls
               ELSE pc' = "poll_fetch" /\ now' > now]_vars
    /\ (hist.flow = "started")
        ~> (/\ pc = "done" /\ hist.flow = "ended"
            /\ hist.pollOutcome \notin {"token", "rejected", "unparsable", "raised"}
                    => (hist.pollOutcome = "timeout" /\ hist.pollRet = "false"))

\* two polls were answered authorization-pending and the flow timed out
C30_Witness ==
    /\ pc = "done" /\ hist.pollOutcome = "timeout" /\ result = "null"
    /\ hist.calls["token_poll"] = 2
    /\ now >= StartTime + 2000

(***************************************************************************)
(* Properties of one authenticate invocation and of the whole run          *)
(***************************************************************************)
\* the loaded session has an access token and the invocation began before
\* its expiry
LoadedTokenUnexpired ==
    /\ hist.loaded.accessToken # Null
    /\ hist.loaded.tokenExpiresAtTimestamp # NullNum
    /\ StartTime < hist.loaded.tokenExpiresAtTimestamp[1]

\* C31: within one authenticate invocation attemptTokenRefresh issues its
\* request at most once, and only when the loaded access token is not
\* valid; requestDeviceCode issues its request at most once, and only when
\* the loaded session had no refresh token or the refresh returned false;
\* after a refresh that failed, a device-code request that raised or a
\* poll that ended, the operation is not begun again (each operation may
\* still repeat its request inside fetchWithRetries).
C31_EachPathTriedOnce ==
    op = "authenticate" =>
        /\ hist.calls["token_refresh"] <= 1
        /\ hist.calls["device_authorization"] <= 1
        /\ hist.calls["token_refresh"] = 1 => ~LoadedTokenUnexpired
        /\ hist.calls["device_authorization"] = 1 =>
                /\ ~LoadedTokenUnexpired
                /\ \/ hist.loaded.refreshToken = Null /\ hist.calls["token_refresh"] = 0
                   \/ hist.refreshRet = "false" /\ hist.calls["token_refresh"] = 1
        /\ hist.refreshRet = "raised" =>
                (pc = "done" /\ hist.calls["device_authorization"] = 0)
        /\ hist.deviceRet = "raised" => (pc = "done" /\ hist.calls["token_poll"] = 0)
        /\ hist.flow = "ended" => pc = "done"
        /\ hist.calls["token_poll"] > 0 => hist.deviceRet = "returned"

\* the refresh was rejected, the device flow was run once and its poll was
\* rejected: authenticate has ended with one refresh and one device-code
\* request
C31_Witness ==
    /\ op = "authenticate" /\ pc = "done" /\ result = "null"
    /\ hist.refreshRet = "false" /\ hist.calls["token_refresh"] = 1
    /\ hist.calls["device_authorization"] = 1
    /\ hist.pollOutcome = "rejected" /\ hist.calls["token_poll"] = 1

\* C32 (as stated): a manifest whose media URL template has no $Number$
\* placeholder is rejected with an error, and no segment is emitted from it.
C32_TemplateWithoutNumberRaises ==
    (/\ pc = "parsed" /\ eval.fn = "parseManifestAndExtractSegments"
     /\ ~eval.input.media.number)
        => /\ eval.output.error # "none"
           /\ eval.output.segmentUrls = <<>>

\* C33 (as stated): a write of the session file that fails is only logged:
\* the step that made it still gives its outcome and raises nothing, the
\* session in memory has the tokens the step gave it, and the file is what
\* it was before the write.
C33_FailedWriteLeavesFileUntouched ==
    [][(hist'.writes = hist.writes + 1 /\ hist'.lastWrite # "ok")
            => /\ result' # "raised"
               /\ (ok(response) /\ pc = "poll_fetch") =>
                        (hist'.pollRet = "true" /\ result' = "session"
                            /\ session'.accessToken = response.token.access_token)
               /\ (ok(response) /\ pc = "refresh_fetch") =>
                        (hist'.refreshRet = "true"
                            /\ session'.accessToken = response.token.access_token)
               /\ file' = file]_vars

\* C34: the finally block never changes the outcome of a job: the job
\* returns the result, or raises the error, that its try block ended with,
\* also when the removal of the temp directory failed.
C34_CleanupFailureOnlyLogged ==
    [][job.pc = "cleanup"
            => /\ job'.pc = job.pending
               /\ job'.pending = job.pending
               /\ job'.value = job.value
               /\ job'.error = job.error /\ job'.stderr = job.stderr
               /\ job'.pc = "returned" => (job'.value.success /\ job'.error = "none")
               /\ job'.pc = "raised" => job'.error # "none"]_vars

\* a job that succeeded has returned its result although the removal of its
\* temp directory failed
C34_Witness ==
    /\ job.pc = "returned" /\ job.cleanup = "failed" /\ job.tempExists
    /\ job.value.success /\ job.value.filePath = "1_LOSSLESS.flac"
    /\ job.error = "none"

\* C35: the session that authenticate returns, by whichever path, has an
\* access token, and its device code, user code, verification URL, flow
\* expiry and poll interval are null.
C35_ReturnedSessionIsClean ==
    (op = "authenticate" /\ pc = "done" /\ result = "session")
        => /\ session.accessToken # Null
           /\ session.deviceCode = Null
           /\ session.userCode = Null
           /\ session.verificationUrl = Null
           /\ session.authCheckTimeoutTimestamp = NullNum
           /\ session.authCheckIntervalMs = NullNum

\* authenticate returned the session that the device flow gave a token
C35_Witness ==
    /\ op = "authenticate" /\ pc = "done" /\ result = "session"
    /\ hist.pollOutcome = "token" /\ hist.deviceRet = "returned"
    /\ session.accessToken = "A1" /\ session.deviceCode = Null

\* C36: a call of fetchWithRetries sends at most three requests, whatever
\* the answers are (429 responses and network failures in any order): the
\* k-th request is sent with k - 1 requests behind it, and the call comes to
\* its end, where it has returned a response or raised.
C36_FetchTerminatesWithinThreeRequests ==
    /\ [](stats.reqs <= 3 /\ stats.n429 + stats.nfail <= stats.reqs)
    /\ [](fpc = "issue" => (attempt <= 3 /\ stats.reqs = attempt - 1))
    /\ [](fpc = "returned" => (response.status # 429 /\ stats.reqs >= 1))
    /\ [](fpc = "raised" => stats.reqs = 3)
    /\ (fpc = "issue") ~> (fpc \in {"returned", "raised"})

\* two 429 responses and then a network failure: the call has raised after
\* its third request
C36_Witness ==
    /\ fpc = "raised" /\ stats.reqs = 3
    /\ stats.n429 = 2 /\ stats.nfail = 1 /\ stats.error = "failed"

\* C37 (as stated): the local filenames of a job's resolved segments are
\* pairwise different, and so are the temp files that two positions of the
\* output are read from.
C37_FilenamesDistinct ==
    job.pc \notin {"idle", "streams", "nostreams", "select", "aborted", "name",
                   "resolve"} =>
        \A k, l \in 1..Len(job.segmentFilenames) :
            k # l => job.segmentFilenames[k] # job.segmentFilenames[l]

(***************************************************************************)
(* The main loop of startup.mjs.  The run starts with a stored token that  *)
(* lasts one more second, so authenticate returns the loaded session       *)
(* without a request.  The clock advances while the user sits at a         *)
(* prompt: the user answers at once, or after MaxWait seconds.             *)
(***************************************************************************)
MaxWait == 1    \* seconds the user spends at the prompts of one run

MainFile == StoredToken(Num(StartTime + 1000), "R0")

JobEnded == {"idle", "nostreams", "aborted", "returned", "raised"}

InitMain ==
    /\ now = StartTime
    /\ file = MainFile
    /\ session = SessionDefaults
    /\ op = "authenticate"
    /\ pc = "start"
    /\ result = "none"
    /\ fpc = "idle"
    /\ attempt = 0
    /\ endpoint = "none"
    /\ response = NoResponse
    /\ stats = NoStats
    /\ hist = NoHist
    /\ job = IdleJob
    /\ eval = NoEval

\* startup.mjs lines 358-376: the one test of the token that main makes,
\* on the session that authenticate returned; then fs.mkdir of the output
\* base directory, whose error ends main
MainCheck ==
    /\ pc = "done"
    /\ pc' \in IF result = "session" /\ isAccessTokenCurrentlyValid(session, now)
               THEN {"menu", "exit"} ELSE {"exit"}
    /\ UNCHANGED <<now, file, session, op, result, fpc, attempt, endpoint,
                   response, stats, hist, job, eval>>

\* startup.mjs lines 378-409 with the handlers of lines 294-348: the menu
\* and URL prompts, then EXIT, or a URL without an id (continue), or a
\* call of handleSongDownload that raises at fs.mkdir of its output
\* directory before it calls downloadMusicTrack, or a download that is
\* handed session.accessToken
MainMenu ==
    /\ pc = "menu"
    /\ \E wait \in {0, MaxWait} :
         /\ now + 1000 * wait <= StartTime + 1000 * MaxWait
         /\ now' = now + 1000 * wait
    /\ \/ pc' = "exit" /\ UNCHANGED job
       \/ pc' = "menu" /\ UNCHANGED job
       \/ pc' = "download" /\ job' = IdleJob
       \/ /\ pc' = "download"
          /\ \/ job' = NewJob("video", <<>>, NoManifest)
             \/ \E manifest \in JobManifests : job' = NewJob("music", <<>>, manifest)
    /\ UNCHANGED <<file, session, op, result, fpc, attempt, endpoint, response,
                   stats, hist, eval>>

\* startup.mjs lines 400-415: the handler has returned, or its error was
\* caught and logged, and nothing of the download is kept; the user asks
\* for another download or leaves
MainRerun ==
    /\ pc = "download" /\ job.pc \in JobEnded
    /\ \E Rerun \in BOOLEAN : pc' = IF Rerun THEN "menu" ELSE "exit"
    /\ job' = IdleJob
    /\ UNCHANGED <<now, file, session, op, result, fpc, attempt, endpoint,
                   response, stats, hist, eval>>

NextMain ==
    \/ AuthStart
    \/ MainCheck
    \/ MainMenu
    \/ MainRerun
    \/ JobFetchStreams
    \/ JobSelectStream
    \/ JobNameOutput
    \/ JobResolve
    \/ JobMkdir
    \/ JobStage
    \/ JobAccelerate
    \/ JobAcceleratorExit
    \/ JobOpenOutput
    \/ JobAppendSegment
    \/ JobStreamErrorInLoop
    \/ JobEndStream
    \/ JobFinish
    \/ JobCleanup

SpecMain == InitMain /\ [][NextMain]_vars

\* the step that sends a playback-info request: fetchAvailableVideoStreams
\* for a video, the first request of downloadMusicTrack for a track
PlaybackInfoRequest ==
    \/ job.pc = "streams" /\ job'.pc # "streams"
    \/ job.kind = "music" /\ job.pc = "resolve" /\ job'.pc # "resolve"

\* C38 (as stated): every playback-info request of a download started
\* from the main loop carries session.accessToken at an instant at which
\* that token has not expired.
C38_RequestsCarryUnexpiredToken ==
    [][PlaybackInfoRequest => isAccessTokenCurrentlyValid(session, now)]_vars

\* C39: every step of a download operation, on its way to a result or to an
\* error, leaves the in-memory session and the session file as they were,
\* and the file changes in no step other than the answer to a poll or to a
\* refresh request.
C39_DownloadsLeaveSessionAlone ==
    [][/\ job' # job => (session' = session /\ file' = file)
       /\ file' # file => pc \in {"poll_fetch", "refresh_fetch"}]_vars

\* a track download has failed after its temp directory was made, in a run
\* whose session holds the stored token
C39_Witness ==
    /\ pc = "download" /\ job.pc = "raised" /\ job.kind = "music" /\ job.created
    /\ session.accessToken = "A0" /\ file = MainFile

====
